---- MODULE Spec2Model ----
(***************************************************************************)
(* AWS Console Time Keeper: the JSURL value codec, the address classifier, *)
(* the per-scheme parsers and the content script's message handler.        *)
(*                                                                         *)
(* Texts are sequences of UTF-16 code units (integers), as JavaScript      *)
(* strings are.  JavaScript numbers are modelled as integers kept in two   *)
(* limbs (hi * 10^6 + lo), so that epoch milliseconds (about 1.7 * 10^12)  *)
(* and the 10^12 threshold of the Logs Insights parser are exact.          *)
(***************************************************************************)
EXTENDS Integers, Sequences, FiniteSets, TLC

VARIABLES
    cin,        \* codec harness: the input handed to JSURL (a Value or a text)
    ctext,      \* codec harness: the text under decoding
    cout,       \* codec harness: outcome of the last JSURL call
    hostname,   \* window.location.hostname
    pathname,   \* window.location.pathname
    search,     \* window.location.search
    hash,       \* window.location.hash
    now,        \* Date.now()
    response,   \* last response sent by the content script's listener
    script,     \* which copy of the content script the page runs
    zone,       \* the browser's time zone, in minutes east of UTC
    applied,    \* history: the time range of the last apply-time message
    previousSearch, \* history: the query before the last apply-time message
    previousHash,   \* history: the hash before the last apply-time message
    applies,    \* history: the number of apply-time messages so far
    currentTimeRange,   \* chrome.storage.local: the stored time range, if any
    timeRangeHistory,   \* chrome.storage.local: the earlier time ranges
    calls,      \* service worker: the calls that are waiting on the storage
    badge,      \* service worker: is the badge of the extension shown
    reply,      \* service worker: the last response it sent
    started,    \* service worker: the number of messages got so far
    ranges,     \* the time range that each save-time-range message carried
    flow,       \* the last capture or apply that the popup or a shortcut began
    navigated   \* history: has the address changed since the last capture

vars ==
    <<cin, ctext, cout, hostname, pathname, search, hash, now, response, script, zone,
      applied, previousSearch, previousHash, applies,
      currentTimeRange, timeRangeHistory, calls, badge, reply, started,
      ranges, flow, navigated>>

codecVars == <<cin, ctext, cout>>
flowVars == <<ranges, flow, navigated>>
historyVars == <<applied, previousSearch, previousHash, applies, flowVars>>
storeVars == <<currentTimeRange, timeRangeHistory, calls, badge, reply, started>>
pageVars ==
    <<hostname, pathname, search, hash, now, response, script, zone, historyVars,
      storeVars>>

(***************************************************************************)
(* Characters and texts                                                    *)
(***************************************************************************)

\* Printable ASCII, code units 32..126, in order (the double quote, the
\* backslash and the backtick are spelled out).
Ascii ==
    << " ", "!", "DQUOTE", "#", "$", "%", "&", "'", "(", ")", "*", "+", ",", "-", ".", "/",
       "0", "1", "2", "3", "4", "5", "6", "7", "8", "9", ":", ";", "<", "=", ">", "?",
       "@", "A", "B", "C", "D", "E", "F", "G", "H", "I", "J", "K", "L", "M", "N", "O",
       "P", "Q", "R", "S", "T", "U", "V", "W", "X", "Y", "Z", "[", "BACKSLASH", "]", "^", "_",
       "BACKTICK", "a", "b", "c", "d", "e", "f", "g", "h", "i", "j", "k", "l", "m", "n", "o",
       "p", "q", "r", "s", "t", "u", "v", "w", "x", "y", "z", "{", "|", "}", "~" >>

\* ch.charCodeAt(0) for a printable ASCII character.
Ord(c) == 31 + (CHOOSE i \in 1..Len(Ascii) : Ascii[i] = c)

\* A text literal, written as a tuple of its characters.
T(chars) == [i \in 1..Len(chars) |-> Ord(chars[i])]

NoChar == 0 - 1     \* what charAt gives past the end (the empty string)

\* str.charAt(i), 0-based.
CharAt(str, i) == IF i >= 0 /\ i < Len(str) THEN str[i + 1] ELSE NoChar

Min(a, b) == IF a < b THEN a ELSE b
Max(a, b) == IF a > b THEN a ELSE b

\* str.substring(a, b), 0-based, end exclusive, both clamped to the text.
Substring(str, a, b) ==
    LET lo == Min(Max(a, 0), Len(str))
        hi == Min(Max(b, 0), Len(str))
    IN  IF lo >= hi THEN << >> ELSE SubSeq(str, lo + 1, hi)

\* str.substring(a)
SubstringFrom(str, a) == Substring(str, a, Len(str))

\* Does pat occur in str at 0-based position i?
MatchesAt(str, pat, i) ==
    /\ i >= 0
    /\ i + Len(pat) <= Len(str)
    /\ \A k \in 1..Len(pat) : str[i + k] = pat[k]

\* The least member of a set of positions, or -1 when there is none.
First(S) == IF S = {} THEN 0 - 1 ELSE CHOOSE i \in S : \A j \in S : i <= j

\* str.indexOf(pat): the first 0-based position, or -1.
IndexOf(str, pat) == First({i \in 0..(Len(str) - Len(pat)) : MatchesAt(str, pat, i)})

\* str.includes(pat)
Includes(str, pat) == \E i \in 0..(Len(str) - Len(pat)) : MatchesAt(str, pat, i)

\* str.startsWith(pat)
StartsWith(str, pat) == MatchesAt(str, pat, 0)

RECURSIVE Concat(_)
\* parts.join("")
Concat(parts) ==
    IF parts = << >> THEN << >> ELSE Head(parts) \o Concat(Tail(parts))

cTilde  == Ord("~")
cLParen == Ord("(")
cRParen == Ord(")")
cQuote  == Ord("'")
cBang   == Ord("!")
cStar   == Ord("*")
cPct    == Ord("%")
cDollar == Ord("$")
cMinus  == Ord("-")
cPlus   == Ord("+")
cAmp    == Ord("&")
cSemi   == Ord(";")
cQMark  == Ord("?")
cEq     == Ord("=")
cHashCh == Ord("#")
cZero   == Ord("0")
cNine   == Ord("9")

IsDigit(c) == c >= cZero /\ c <= cNine

EndIfNone(p, str) == IF p < 0 THEN Len(str) ELSE p

\* The position of the first character from i on that is in stop, or the end.
Run(str, i, stop) ==
    EndIfNone(First({j \in Max(i, 0)..(Len(str) - 1) : str[j + 1] \in stop}), str)

\* The position after the digits that start at i.
DigitsEnd(str, i) ==
    EndIfNone(First({j \in Max(i, 0)..(Len(str) - 1) : ~IsDigit(str[j + 1])}), str)

\* The value of a hexadecimal digit, or -1.
HexVal(c) ==
    IF IsDigit(c) THEN c - cZero
    ELSE IF c >= Ord("A") /\ c <= Ord("F") THEN c - Ord("A") + 10
    ELSE IF c >= Ord("a") /\ c <= Ord("f") THEN c - Ord("a") + 10
    ELSE 0 - 1

HexChars == T(<<"0","1","2","3","4","5","6","7","8","9","A","B","C","D","E","F">>)

RECURSIVE ToHexUpper(_)
\* code.toString(16).toUpperCase() for code >= 0
ToHexUpper(n) ==
    IF n < 16 THEN << HexChars[n + 1] >>
    ELSE ToHexUpper(n \div 16) \o << HexChars[(n % 16) + 1] >>

\* Upper-case an ASCII letter (for the /i flag of a regular expression).
Upper(c) == IF c >= Ord("a") /\ c <= Ord("z") THEN c - 32 ELSE c

\* MatchesAt, ignoring ASCII case.
MatchesAtI(str, pat, i) ==
    /\ i >= 0
    /\ i + Len(pat) <= Len(str)
    /\ \A k \in 1..Len(pat) : Upper(str[i + k]) = Upper(pat[k])

(***************************************************************************)
(* Numbers: integers in two limbs, value = hi * Base + lo, 0 <= lo < Base  *)
(***************************************************************************)

Base == 1000 * 1000

Norm(h, l) == [hi |-> h + (l \div Base), lo |-> l % Base]

\* The number k, for a small integer k.
N(k) == Norm(0, k)

NAdd(x, y) == Norm(x.hi + y.hi, x.lo + y.lo)
NNeg(x) == Norm(0 - x.hi, 0 - x.lo)
NSub(x, y) == NAdd(x, NNeg(y))
NLess(x, y) == x.hi < y.hi \/ (x.hi = y.hi /\ x.lo < y.lo)
NIsNeg(x) == x.hi < 0
NIsZero(x) == x.hi = 0 /\ x.lo = 0

\* x * 1000
NMul1000(x) == Norm(x.hi * 1000, x.lo * 1000)

\* x * 10 + d
NShift10(x, d) == Norm(x.hi * 10, x.lo * 10 + d)

\* Math.floor(x / 1000)
NFloorDiv1000(x) == Norm(0, x.hi * 1000 + (x.lo \div 1000))

\* 1e12
N1e12 == [hi |-> Base, lo |-> 0]

RECURSIVE DigitsOf(_)
\* Decimal digits of a small natural number.
DigitsOf(k) ==
    IF k < 10 THEN << cZero + k >>
    ELSE DigitsOf(k \div 10) \o << cZero + (k % 10) >>

\* The low limb, zero-padded to six digits.
PadLimb(l) ==
    LET d == DigitsOf(l)
    IN  [i \in 1..(6 - Len(d)) |-> cZero] \o d

\* String(x) for an integer number x: what "~" + v appends.
NumToText(x) ==
    LET a == IF NIsNeg(x) THEN NNeg(x) ELSE x
        digits == IF a.hi = 0 THEN DigitsOf(a.lo) ELSE DigitsOf(a.hi) \o PadLimb(a.lo)
    IN  IF NIsNeg(x) THEN << cMinus >> \o digits ELSE digits

RECURSIVE DigitsToNum(_, _)
\* The number written by a run of decimal digits, continuing from acc.
DigitsToNum(ds, acc) ==
    IF ds = << >> THEN acc
    ELSE DigitsToNum(Tail(ds), NShift10(acc, Head(ds) - cZero))

AllDigits(ds) == \A k \in 1..Len(ds) : IsDigit(ds[k])

(***************************************************************************)
(* Values: what JSURL.parse returns and JSURL.stringify accepts.           *)
(* One record shape for every Value, so that any two can be compared.      *)
(*   t: "undefined" | "null" | "boolean" | "number" | "nan" | "string" |   *)
(*      "array" | "object";  b: the boolean;  n: the number;  s: the       *)
(*   string; a: the array's elements;  m: the object's entries [k, v] in   *)
(*   property order.                                                       *)
(***************************************************************************)

Mk(t, b, n, s, a, m) == [t |-> t, b |-> b, n |-> n, s |-> s, a |-> a, m |-> m]

Undef   == Mk("undefined", FALSE, N(0), << >>, << >>, << >>)
Null    == Mk("null", FALSE, N(0), << >>, << >>, << >>)
Bool(b) == Mk("boolean", b, N(0), << >>, << >>, << >>)
Num(n)  == Mk("number", FALSE, n, << >>, << >>, << >>)
NaN     == Mk("nan", FALSE, N(0), << >>, << >>, << >>)
Str(s)  == Mk("string", FALSE, N(0), s, << >>, << >>)
Arr(a)  == Mk("array", FALSE, N(0), << >>, a, << >>)
Obj(m)  == Mk("object", FALSE, N(0), << >>, << >>, m)

\* A loop of _parse that never ends: the call returns nothing at all.
Diverges == Mk("diverges", FALSE, N(0), << >>, << >>, << >>)

\* JavaScript truthiness (!!v).
Truthy(v) ==
    CASE v.t = "undefined" -> FALSE
      [] v.t = "null" -> FALSE
      [] v.t = "nan" -> FALSE
      [] v.t = "boolean" -> v.b
      [] v.t = "number" -> ~NIsZero(v.n)
      [] v.t = "string" -> v.s # << >>
      [] OTHER -> TRUE

\* v != null (neither null nor undefined).
NotNullish(v) == v.t # "undefined" /\ v.t # "null"

\* 2^32 - 1: property names below it that are canonical decimal integers are
\* array indices, which an object lists first, in ascending order.
MaxIndex == [hi |-> 4294, lo |-> 967295]

IsIndexKey(k) ==
    /\ Len(k) >= 1
    /\ Len(k) <= 10
    /\ AllDigits(k)
    /\ (Len(k) = 1 \/ k[1] # cZero)
    /\ NLess(DigitsToNum(k, N(0)), MaxIndex)

HasKey(m, key) == \E i \in 1..Len(m) : m[i].k = key

\* obj[key] = val: an existing property keeps its place; a new index key
\* goes among the index keys in ascending order; any other new key goes last.
ObjSet(m, key, val) ==
    IF HasKey(m, key)
    THEN [i \in 1..Len(m) |-> IF m[i].k = key THEN [k |-> key, v |-> val] ELSE m[i]]
    ELSE IF IsIndexKey(key)
    THEN LET before == Cardinality({i \in 1..Len(m) :
                           /\ IsIndexKey(m[i].k)
                           /\ NLess(DigitsToNum(m[i].k, N(0)), DigitsToNum(key, N(0)))})
         IN  SubSeq(m, 1, before) \o << [k |-> key, v |-> val] >>
                 \o SubSeq(m, before + 1, Len(m))
    ELSE Append(m, [k |-> key, v |-> val])

\* v.key for a truthy Value v: own property of an object, undefined otherwise.
Get(v, key) ==
    IF v.t = "object" /\ HasKey(v.m, key)
    THEN (v.m[CHOOSE i \in 1..Len(v.m) : v.m[i].k = key]).v
    ELSE Undef

(***************************************************************************)
(* JSURL                                                                   *)
(***************************************************************************)

\* _encode(ch), with _encodeMap
Encode(ch) ==
    IF ch = cQuote THEN << cBang >>
    ELSE IF ch = cBang THEN << cQuote >>
    ELSE IF ch <= 127 THEN << cStar >> \o ToHexUpper(ch)
    ELSE << cStar, cStar >> \o ToHexUpper(ch)

RECURSIVE EncodeEach(_, _)
\* str.replace(/[set]/g, _encode)
EncodeEach(str, set) ==
    IF str = << >> THEN << >>
    ELSE (IF Head(str) \in set THEN Encode(Head(str)) ELSE << Head(str) >>)
             \o EncodeEach(Tail(str), set)

RECURSIVE ReplacePct(_)
\* str.replace(/%/g, "*25")
ReplacePct(str) ==
    IF str = << >> THEN << >>
    ELSE (IF Head(str) = cPct THEN T(<<"*", "2", "5">>) ELSE << Head(str) >>)
             \o ReplacePct(Tail(str))

\* v.replace(/[!'*]/g, _encode).replace(/%/g, "*25")
EncodeString(s) == ReplacePct(EncodeEach(s, {cBang, cQuote, cStar}))

\* key.replace(/[!'*%]/g, _encode)
EncodeKey(k) == EncodeEach(k, {cBang, cQuote, cStar, cPct})

tNull  == T(<<"n", "u", "l", "l">>)
tTrue  == T(<<"t", "r", "u", "e">>)
tFalse == T(<<"f", "a", "l", "s", "e">>)

RECURSIVE JoinTilde(_)
\* pairs.join("~")
JoinTilde(pairs) ==
    IF pairs = << >> THEN << >>
    ELSE IF Len(pairs) = 1 THEN pairs[1]
    ELSE pairs[1] \o << cTilde >> \o JoinTilde(Tail(pairs))

RECURSIVE Stringify(_)
RECURSIVE StringifyItems(_)
RECURSIVE StringifyPairs(_)

\* v.map(item => _stringify(item) || "~null").join("")
StringifyItems(a) ==
    IF a = << >> THEN << >>
    ELSE LET x == Stringify(Head(a))
         IN  (IF x = << >> THEN << cTilde >> \o tNull ELSE x) \o StringifyItems(Tail(a))

\* the pairs array built by the forEach over Object.keys(v)
StringifyPairs(m) ==
    IF m = << >> THEN << >>
    ELSE LET val == Stringify(Head(m).v)
         IN  (IF val # << >> THEN << EncodeKey(Head(m).k) \o val >> ELSE << >>)
                 \o StringifyPairs(Tail(m))

\* _stringify(v)
Stringify(v) ==
    CASE v.t = "undefined" -> << >>
      [] v.t = "null" -> << cTilde >> \o tNull
      [] v.t = "number" -> << cTilde >> \o NumToText(v.n)
      [] v.t = "nan" -> << cTilde >> \o tNull
      [] v.t = "boolean" -> << cTilde >> \o (IF v.b THEN tTrue ELSE tFalse)
      [] v.t = "string" -> << cTilde, cQuote >> \o EncodeString(v.s)
      [] v.t = "array" -> << cTilde, cLParen >> \o StringifyItems(v.a) \o << cRParen >>
      [] v.t = "object" ->
            << cTilde, cLParen >> \o JoinTilde(StringifyPairs(v.m)) \o << cRParen >>
      [] OTHER -> << >>

\* parseInt(code, 16): an optional sign, an optional 0x, then the longest run
\* of hexadecimal digits; NaN when that run is empty.
RECURSIVE HexRun(_, _, _)
HexRun(str, acc, seen) ==
    IF str = << >> \/ HexVal(Head(str)) < 0
    THEN [nan |-> ~seen, val |-> acc]
    ELSE HexRun(Tail(str), acc * 16 + HexVal(Head(str)), TRUE)

Signed(neg, r) == [nan |-> r.nan, val |-> IF neg THEN 0 - r.val ELSE r.val]

IsNegative(text) == text # << >> /\ Head(text) = cMinus

\* The text after an optional sign.
Unsigned(text) ==
    IF text # << >> /\ Head(text) \in {cMinus, cPlus} THEN Tail(text) ELSE text

\* The text after an optional 0x.
Unprefixed(text) ==
    IF Len(text) >= 2 /\ text[1] = cZero /\ text[2] \in {Ord("x"), Ord("X")}
    THEN Tail(Tail(text)) ELSE text

ParseIntHex(code) == Signed(IsNegative(code), HexRun(Unprefixed(Unsigned(code)), 0, FALSE))

\* String.fromCharCode(n): ToUint16, NaN giving 0.
FromCharCode(r) == IF r.nan THEN 0 ELSE r.val % 65536

\* parseInt(text, 10) of a string: an optional sign and the longest run of
\* decimal digits; NaN when that run is empty.
RECURSIVE DigitRun(_)
DigitRun(str) ==
    IF str = << >> \/ ~IsDigit(Head(str)) THEN << >>
    ELSE << Head(str) >> \o DigitRun(Tail(str))

SignedNum(neg, ds) ==
    IF ds = << >> THEN NaN
    ELSE IF neg THEN Num(NNeg(DigitsToNum(ds, N(0)))) ELSE Num(DigitsToNum(ds, N(0)))

ParseInt10(text) == SignedNum(IsNegative(text), DigitRun(Unsigned(text)))

WholeNum(neg, ds) == IF ds # << >> /\ AllDigits(ds) THEN SignedNum(neg, ds) ELSE NaN

\* Number(numStr) for the texts of the model: the empty text is 0, an optionally
\* signed run of decimal digits is that integer, anything else is NaN.
\* (Fractions, exponents, radix prefixes and "Infinity" are outside the
\* alphabets the model feeds to the number branch.)
NumberOf(numStr) ==
    IF numStr = << >> THEN Num(N(0))
    ELSE WholeNum(IsNegative(numStr), Unsigned(numStr))

RECURSIVE KeyLoop(_, _, _)
\* The key loop of _parse: reads up to "~", ")" or "(", undoing the escapes.
KeyLoop(str, i, key) ==
    LET ch == CharAt(str, i)
    IN  IF ~(i < Len(str)) THEN [s |-> key, i |-> i]
        ELSE IF ch = cTilde \/ ch = cRParen \/ ch = cLParen THEN [s |-> key, i |-> i]
        ELSE IF ch = cBang THEN KeyLoop(str, i + 1, Append(key, cQuote))
        ELSE IF ch = cStar
        THEN IF CharAt(str, i + 1) = cStar
             THEN KeyLoop(str, i + 6,
                      Append(key, FromCharCode(ParseIntHex(Substring(str, i + 2, i + 6)))))
             ELSE KeyLoop(str, i + 3,
                      Append(key, FromCharCode(ParseIntHex(Substring(str, i + 1, i + 3)))))
        ELSE KeyLoop(str, i + 1, Append(key, ch))

RECURSIVE StringLoop(_, _, _)
\* The string loop of _parse: reads up to "~" or ")", undoing the escapes.
StringLoop(str, i, s) ==
    LET ch == CharAt(str, i)
    IN  IF ~(i < Len(str)) THEN [s |-> s, i |-> i]
        ELSE IF ch = cTilde \/ ch = cRParen THEN [s |-> s, i |-> i]
        ELSE IF ch = cBang THEN StringLoop(str, i + 1, Append(s, cQuote))
        ELSE IF ch = cStar
        THEN IF CharAt(str, i + 1) = cStar
             THEN StringLoop(str, i + 6,
                      Append(s, FromCharCode(ParseIntHex(Substring(str, i + 2, i + 6)))))
             ELSE IF CharAt(str, i + 1) = Ord("2") /\ CharAt(str, i + 2) = Ord("5")
             THEN StringLoop(str, i + 3, Append(s, cPct))
             ELSE StringLoop(str, i + 3,
                      Append(s, FromCharCode(ParseIntHex(Substring(str, i + 1, i + 3)))))
        ELSE StringLoop(str, i + 1, Append(s, ch))

RECURSIVE NumberLoop(_, _)
\* The number loop of _parse: the position of the next "~" or ")", or the end.
NumberLoop(str, i) ==
    IF ~(i < Len(str)) THEN i
    ELSE IF CharAt(str, i) = cTilde \/ CharAt(str, i) = cRParen THEN i
    ELSE NumberLoop(str, i + 1)

\* The test that guards "Skip separator ~" in the object loop.
SkipsSeparator(str, i) ==
    LET c1 == CharAt(str, i + 1)
    IN  /\ CharAt(str, i) = cTilde
        /\ c1 # cLParen
        /\ c1 # cQuote
        /\ c1 # Ord("n")
        /\ c1 # Ord("t")
        /\ c1 # Ord("f")
        /\ ~IsDigit(c1)
        /\ c1 # cMinus

RECURSIVE ParseValue(_, _)
RECURSIVE ArrayLoop(_, _, _)
RECURSIVE ObjectLoop(_, _, _)

\* One pass of the array do-while of _parse, r being what _parse returned for
\* the element.  A pass that leaves the position where it found it repeats
\* for ever.
ArrayPass(str, i, arr, r) ==
    IF r.v = Diverges THEN [v |-> Diverges, i |-> r.i]
    ELSE IF CharAt(str, r.i) # cRParen /\ r.i < Len(str)
    THEN IF r.i = i THEN [v |-> Diverges, i |-> i]
         ELSE ArrayLoop(str, r.i, Append(arr, r.v))
    ELSE [v |-> Arr(Append(arr, r.v)), i |-> r.i + 1]

\* The array do-while of _parse.
ArrayLoop(str, i, arr) == ArrayPass(str, i, arr, ParseValue(str, i))

\* The end of one pass of the object do-while: p is the position after the
\* separator test.
ObjectPassEnd(str, i, obj, p) ==
    IF CharAt(str, p) # cRParen /\ p < Len(str)
    THEN IF p = i THEN [v |-> Diverges, i |-> i]
         ELSE ObjectLoop(str, p, obj)
    ELSE [v |-> Obj(obj), i |-> p + 1]

\* One pass of the object do-while, after the key k and its value r were read.
ObjectPass(str, i, obj, k, r) ==
    IF r.v = Diverges THEN [v |-> Diverges, i |-> r.i]
    ELSE ObjectPassEnd(str, i, ObjSet(obj, k.s, r.v),
                       IF SkipsSeparator(str, r.i) THEN r.i + 1 ELSE r.i)

ObjectValue(str, i, obj, k) == ObjectPass(str, i, obj, k, ParseValue(str, k.i))

\* The object do-while of _parse.
ObjectLoop(str, i, obj) == ObjectValue(str, i, obj, KeyLoop(str, i, << >>))

StringResult(r) == [v |-> Str(r.s), i |-> r.i]

NumberResult(str, j, e) == [v |-> NumberOf(Substring(str, j, e)), i |-> e]

\* The literal branches of _parse: the value when the literal is there, else
\* the fall through to "return undefined" with the position on the letter.
LiteralResult(str, j, lit, v) ==
    IF Substring(str, j, j + Len(lit)) = lit
    THEN [v |-> v, i |-> j + Len(lit)] ELSE [v |-> Undef, i |-> j]

\* _parse after a "~": j is the position after it, c2 the character there.
ParseToken(str, j, c2) ==
    IF c2 = cLParen
    THEN IF CharAt(str, j + 1) = cRParen THEN [v |-> Arr(<< >>), i |-> j + 2]
         ELSE IF CharAt(str, j + 1) = cTilde THEN ArrayLoop(str, j + 1, << >>)
         ELSE ObjectLoop(str, j + 1, << >>)
    ELSE IF c2 = cQuote THEN StringResult(StringLoop(str, j + 1, << >>))
    ELSE IF c2 = Ord("n") THEN LiteralResult(str, j, tNull, Null)
    ELSE IF c2 = Ord("t") THEN LiteralResult(str, j, tTrue, Bool(TRUE))
    ELSE IF c2 = Ord("f") THEN LiteralResult(str, j, tFalse, Bool(FALSE))
    ELSE NumberResult(str, j, NumberLoop(str, j))

\* _parse(str, pos): the value and the position after it.
ParseValue(str, i) ==
    IF CharAt(str, i) = NoChar THEN [v |-> Undef, i |-> i]
    ELSE IF CharAt(str, i) # cTilde THEN [v |-> Undef, i |-> i]
    ELSE ParseToken(str, i + 1, CharAt(str, i + 1))

\* The outcome of a call: it returned a Value, threw, or never returns.
Returned(v) == [kind |-> "returned", val |-> v]
Threw == [kind |-> "threw", val |-> Undef]
Hangs == [kind |-> "hangs", val |-> Undef]
NotCalled == [kind |-> "none", val |-> Undef]

ParseOutcome(r) == IF r.v = Diverges THEN Hangs ELSE Returned(r.v)

\* JSURL.parse(str).  A falsy argument gives undefined; a truthy argument that
\* is no string has no charAt, which is a TypeError.
JsurlParse(x) ==
    IF ~Truthy(x) THEN Returned(Undef)
    ELSE IF x.t # "string" THEN Threw
    ELSE ParseOutcome(ParseValue(x.s, 0))

\* try { return JSURL.parse(str) || defaultValue } catch (e) { return defaultValue }
TryOutcome(r, defaultValue) ==
    IF r.kind = "threw" THEN Returned(defaultValue)
    ELSE IF r.kind = "hangs" THEN Hangs
    ELSE IF Truthy(r.val) THEN r ELSE Returned(defaultValue)

\* JSURL.tryParse(str, defaultValue)
JsurlTryParse(x, defaultValue) == TryOutcome(JsurlParse(x), defaultValue)

\* JSURL.stringify(v)
JsurlStringify(v) == Stringify(v)

(***************************************************************************)
(* The content script: service detection                                   *)
(***************************************************************************)

tScheme == T(<<"h", "t", "t", "p", "s", ":", "/", "/">>)
tCloudwatch == T(<<"/", "c", "l", "o", "u", "d", "w", "a", "t", "c", "h">>)
tXray == T(<<"/", "x", "r", "a", "y">>)
tXDashRay == T(<<"/", "x", "-", "r", "a", "y">>)
tConsoleHost == T(<<".", "c", "o", "n", "s", "o", "l", "e", ".", "a", "w", "s", ".", "a",
        "m", "a", "z", "o", "n", ".", "c", "o", "m">>)
tMetricsV2 == T(<<"m", "e", "t", "r", "i", "c", "s", "V", "2">>)
tLogGroups == T(<<"l", "o", "g", "s", "V", "2", ":", "l", "o", "g", "-", "g", "r", "o", "u",
        "p", "s">>)
tLogsInsights == T(<<"l", "o", "g", "s", "-", "i", "n", "s", "i", "g", "h", "t", "s">>)
tLogsV2 == T(<<"l", "o", "g", "s", "V", "2">>)
tQueryDetail == T(<<"q", "u", "e", "r", "y", "D", "e", "t", "a", "i", "l">>)
tQueryDetailCoded == T(<<"q", "u", "e", "r", "y", "D", "e", "t", "a", "i", "l", "$", "3", "D">>)
tStartCoded == T(<<"$", "3", "F", "s", "t", "a", "r", "t", "$", "3", "D">>)
tStartPlain == T(<<"?", "s", "t", "a", "r", "t", "=">>)
tStateMarker == T(<<"?", "~", "(">>)
tColonStateMarker == T(<<":", "?", "~", "(">>)

\* window.location.href
Href == Concat(<< tScheme, hostname, pathname, search, hash >>)

\* detectService() with the Log Events test moved ahead of the Logs Insights
\* tests.
detectServiceLogsFirst(url, path, h) ==
    IF Includes(path, tCloudwatch) /\ Includes(h, tMetricsV2)
    THEN "cloudwatch-metrics"
    ELSE IF /\ Includes(path, tCloudwatch)
            /\ Includes(h, tLogGroups)
            /\ (Includes(h, tStartCoded) \/ Includes(h, tStartPlain))
    THEN "cloudwatch-logs"
    ELSE IF /\ Includes(path, tCloudwatch)
            /\ \/ Includes(h, tLogsInsights)
               \/ /\ Includes(h, tLogsV2)
                  /\ \/ Includes(h, tQueryDetail)
                     \/ Includes(h, tQueryDetailCoded)
    THEN "cloudwatch-logs-insights"
    ELSE IF Includes(path, tXray) \/ Includes(path, tXDashRay)
    THEN "xray"
    ELSE IF Includes(path, tCloudwatch)
    THEN (IF Includes(h, tStateMarker) THEN "cloudwatch-generic"
          ELSE "cloudwatch-other")
    ELSE IF Includes(url, tConsoleHost) THEN "unknown"
    ELSE "not-aws"

\* detectService() of the bundled content script; url, path and h are
\* window.location.href, .pathname and .hash.
detectService(url, path, h) ==
    IF Includes(path, tCloudwatch) /\ Includes(h, tMetricsV2)
    THEN "cloudwatch-metrics"
    ELSE IF /\ Includes(path, tCloudwatch)
            /\ Includes(h, tLogGroups)
            /\ Includes(h, tLogsInsights)
    THEN "cloudwatch-logs-insights"
    ELSE IF /\ Includes(path, tCloudwatch)
            /\ \/ Includes(h, tLogsInsights)
               \/ /\ Includes(h, tLogsV2)
                  /\ \/ Includes(h, tQueryDetail)
                     \/ Includes(h, tQueryDetailCoded)
    THEN "cloudwatch-logs-insights"
    ELSE IF /\ Includes(path, tCloudwatch)
            /\ Includes(h, tLogGroups)
            /\ (Includes(h, tStartCoded) \/ Includes(h, tStartPlain))
    THEN "cloudwatch-logs"
    ELSE IF Includes(path, tXray) \/ Includes(path, tXDashRay)
    THEN "xray"
    ELSE IF Includes(path, tCloudwatch)
    THEN (IF Includes(h, tStateMarker) THEN "cloudwatch-generic"
          ELSE "cloudwatch-other")
    ELSE IF Includes(url, tConsoleHost) THEN "unknown"
    ELSE "not-aws"

\* detectService() of src/content/content.js
contentDetectService(url, path, h) ==
    IF Includes(path, tCloudwatch) /\ Includes(h, tMetricsV2)
    THEN "cloudwatch-metrics"
    ELSE IF /\ Includes(path, tCloudwatch)
            /\ Includes(h, tLogGroups)
            /\ Includes(h, tLogsInsights)
    THEN "cloudwatch-logs-insights"
    ELSE IF /\ Includes(path, tCloudwatch)
            /\ \/ Includes(h, tLogsInsights)
               \/ (Includes(h, tLogsV2) /\ Includes(h, tQueryDetail))
    THEN "cloudwatch-logs-insights"
    ELSE IF Includes(path, tXray) \/ Includes(path, tXDashRay)
    THEN "xray"
    ELSE IF Includes(path, tCloudwatch)
    THEN (IF Includes(h, tColonStateMarker) THEN "cloudwatch-generic"
          ELSE "cloudwatch-other")
    ELSE IF Includes(url, tConsoleHost) THEN "unknown"
    ELSE "not-aws"

\* The classifier of the script the page runs.
Service ==
    IF script = "content" THEN contentDetectService(Href, pathname, hash)
    ELSE detectService(Href, pathname, hash)

(***************************************************************************)
(* The content script: text and number helpers of the parsers              *)
(***************************************************************************)

\* The first 0-based position at or after i that pat matches (ignoring case
\* when ci), or -1.
Search(str, pat, i, ci) ==
    First({j \in i..(Len(str) - Len(pat)) :
              IF ci THEN MatchesAtI(str, pat, j) ELSE MatchesAt(str, pat, j)})

NoMatch == [found |-> FALSE, at |-> 0, val |-> << >>]

ParamAt(str, at, e) == [found |-> TRUE, at |-> at, val |-> Substring(str, at, e)]

ParamFrom(str, name, stops, p) ==
    IF p < 0 THEN NoMatch
    ELSE ParamAt(str, p + Len(name), Run(str, p + Len(name), stops))

\* str.match(/name([^stops]*)/) : the first place the name occurs, and the run
\* of characters outside stops after it.
MatchParam(str, name, stops, ci) == ParamFrom(str, name, stops, Search(str, name, 0, ci))

RECURSIVE ReplaceAll(_, _, _, _)
ReplaceFrom(str, pat, by, ci, p) ==
    IF p < 0 THEN str
    ELSE Substring(str, 0, p) \o by
             \o ReplaceAll(SubstringFrom(str, p + Len(pat)), pat, by, ci)

\* str.replace(/pat/g, by), ignoring case when ci
ReplaceAll(str, pat, by, ci) == ReplaceFrom(str, pat, by, ci, Search(str, pat, 0, ci))

\* The byte written as %HH at position i, or -1.
PctByte(str, i) ==
    IF /\ CharAt(str, i) = cPct
       /\ HexVal(CharAt(str, i + 1)) >= 0
       /\ HexVal(CharAt(str, i + 2)) >= 0
    THEN HexVal(CharAt(str, i + 1)) * 16 + HexVal(CharAt(str, i + 2))
    ELSE 0 - 1

\* The continuation byte of a UTF-8 sequence at position i, or -1.
ContByte(str, i) ==
    IF PctByte(str, i) >= 128 /\ PctByte(str, i) <= 191 THEN PctByte(str, i) - 128
    ELSE 0 - 1

\* The code point of the UTF-8 sequence that starts with byte b at position i
\* and its length in bytes, or a code point of -1 when it is not well formed.
Utf8At(str, i, b) ==
    IF b >= 194 /\ b <= 223
    THEN [n |-> 2,
          cp |-> IF ContByte(str, i + 3) < 0 THEN 0 - 1
                 ELSE (b - 192) * 64 + ContByte(str, i + 3)]
    ELSE IF b >= 224 /\ b <= 239
    THEN [n |-> 3,
          cp |-> IF ContByte(str, i + 3) < 0 \/ ContByte(str, i + 6) < 0 THEN 0 - 1
                 ELSE (b - 224) * 4096 + ContByte(str, i + 3) * 64
                          + ContByte(str, i + 6)]
    ELSE IF b >= 240 /\ b <= 244
    THEN [n |-> 4,
          cp |-> IF \/ ContByte(str, i + 3) < 0
                    \/ ContByte(str, i + 6) < 0
                    \/ ContByte(str, i + 9) < 0
                 THEN 0 - 1
                 ELSE (b - 240) * 262144 + ContByte(str, i + 3) * 4096
                          + ContByte(str, i + 6) * 64 + ContByte(str, i + 9)]
    ELSE [n |-> 1, cp |-> 0 - 1]

\* Is u the code point of a well-formed sequence of its length?
ValidCodePoint(u) ==
    /\ u.cp >= (IF u.n = 2 THEN 128 ELSE IF u.n = 3 THEN 2048 ELSE 65536)
    /\ u.cp <= 1114111
    /\ ~(u.cp >= 55296 /\ u.cp <= 57343)

\* The UTF-16 code units of a code point.
CodeUnits(cp) ==
    IF cp < 65536 THEN << cp >>
    ELSE << 55296 + ((cp - 65536) \div 1024), 56320 + ((cp - 65536) % 1024) >>

RECURSIVE DecodeFrom(_, _, _)
DecodeSequence(str, i, acc, u) ==
    IF ValidCodePoint(u) THEN DecodeFrom(str, i + 3 * u.n, acc \o CodeUnits(u.cp))
    ELSE [ok |-> FALSE, val |-> << >>]

DecodeEscape(str, i, acc, b) ==
    IF b < 0 THEN [ok |-> FALSE, val |-> << >>]
    ELSE IF b < 128 THEN DecodeFrom(str, i + 3, Append(acc, b))
    ELSE DecodeSequence(str, i, acc, Utf8At(str, i, b))

DecodePlain(str, i, acc, p) ==
    IF p >= Len(str) THEN [ok |-> TRUE, val |-> acc \o Substring(str, i, p)]
    ELSE DecodeEscape(str, p, acc \o Substring(str, i, p), PctByte(str, p))

DecodeFrom(str, i, acc) == DecodePlain(str, i, acc, Run(str, i, {cPct}))

\* decodeURIComponent(str): the decoded text, or ok = FALSE for a URIError.
DecodeURIComponent(str) == DecodeFrom(str, 0, << >>)

tNaN == T(<<"N", "a", "N">>)
tUndefined == T(<<"u", "n", "d", "e", "f", "i", "n", "e", "d">>)
tObjectObject == T(<<"[", "o", "b", "j", "e", "c", "t", " ", "O", "b", "j", "e", "c", "t",
        "]">>)
tComma == T(<<",">>)

RECURSIVE ToText(_)
RECURSIVE JoinComma(_)
\* a.join(",")
JoinComma(a) ==
    IF a = << >> THEN << >>
    ELSE (IF Head(a).t \in {"null", "undefined"} THEN << >> ELSE ToText(Head(a)))
             \o (IF Len(a) > 1 THEN tComma ELSE << >>) \o JoinComma(Tail(a))

\* String(v)
ToText(v) ==
    IF v.t = "string" THEN v.s
    ELSE IF v.t = "number" THEN NumToText(v.n)
    ELSE IF v.t = "nan" THEN tNaN
    ELSE IF v.t = "boolean" THEN (IF v.b THEN tTrue ELSE tFalse)
    ELSE IF v.t = "null" THEN tNull
    ELSE IF v.t = "undefined" THEN tUndefined
    ELSE IF v.t = "array" THEN JoinComma(v.a)
    ELSE tObjectObject

WhiteSpace == { 9, 10, 11, 12, 13, 32, 160 }

RECURSIVE TrimStart(_)
TrimStart(str) ==
    IF str # << >> /\ Head(str) \in WhiteSpace THEN TrimStart(Tail(str)) ELSE str

RECURSIVE TrimEnd(_)
TrimEnd(str) ==
    IF str # << >> /\ str[Len(str)] \in WhiteSpace
    THEN TrimEnd(SubSeq(str, 1, Len(str) - 1)) ELSE str

\* parseInt(v, 10)
ParseInt(v) == ParseInt10(TrimStart(ToText(v)))

\* Number(v)
ToNumber(v) ==
    IF v.t \in {"number", "nan"} THEN v
    ELSE IF v.t = "boolean" THEN (IF v.b THEN Num(N(1)) ELSE Num(N(0)))
    ELSE IF v.t = "null" THEN Num(N(0))
    ELSE IF v.t = "undefined" THEN NaN
    ELSE IF v.t = "object" THEN NaN
    ELSE NumberOf(TrimEnd(TrimStart(ToText(v))))

\* isNaN(v)
IsNaN(v) == ToNumber(v).t = "nan"

IsNumber(v) == v.t \in {"number", "nan"}

\* a + b, a - b and a * 1000 for Values that are numbers
VAdd(a, b) == IF a.t = "number" /\ b.t = "number" THEN Num(NAdd(a.n, b.n)) ELSE NaN
VSub(a, b) == IF a.t = "number" /\ b.t = "number" THEN Num(NSub(a.n, b.n)) ELSE NaN
VMul1000(a) == IF a.t = "number" THEN Num(NMul1000(a.n)) ELSE NaN

\* a < b for Values that are numbers (false when either is NaN)
VLess(a, b) == a.t = "number" /\ b.t = "number" /\ NLess(a.n, b.n)

(***************************************************************************)
(* The content script: dates and durations                                 *)
(***************************************************************************)

\* The number written by the n digits at position i, or -1.
DigitsAt(str, i, n) ==
    IF i + n <= Len(str) /\ \A k \in 1..n : IsDigit(str[i + k])
    THEN DigitsToNum(SubSeq(str, i + 1, i + n), N(0)).lo
    ELSE 0 - 1

IsLeap(y) == (y % 4 = 0 /\ y % 100 # 0) \/ y % 400 = 0

DaysInMonth(y, m) ==
    IF m = 2 THEN (IF IsLeap(y) THEN 29 ELSE 28)
    ELSE IF m \in {4, 6, 9, 11} THEN 30 ELSE 31

\* Days from 1970-01-01 to the civil date y-m-d of the proleptic Gregorian
\* calendar.
DaysFromCivil(y, m, d) ==
    LET yy == IF m <= 2 THEN y - 1 ELSE y
        era == yy \div 400
        yoe == yy - era * 400
        doy == ((153 * (IF m > 2 THEN m - 3 ELSE m + 9) + 2) \div 5) + d - 1
        doe == yoe * 365 + (yoe \div 4) - (yoe \div 100) + doy
    IN  era * 146097 + doe - 719468

\* x * 100
NMul100(x) == Norm(x.hi * 100, x.lo * 100)

\* The epoch milliseconds of a civil date and time at the given offset from
\* UTC in minutes.
EpochMs(y, m, d, hh, mi, ss, ms, off) ==
    NAdd(NMul1000(NAdd(NMul100(N(DaysFromCivil(y, m, d) * 864)),
                       N(hh * 3600 + mi * 60 + ss - off * 60))),
         N(ms))

\* The date part of an ISO text is YYYY-MM-DD with a real day.
DateOk(str) ==
    /\ DigitsAt(str, 0, 4) >= 0
    /\ CharAt(str, 4) = cMinus
    /\ DigitsAt(str, 5, 2) >= 1 /\ DigitsAt(str, 5, 2) <= 12
    /\ CharAt(str, 7) = cMinus
    /\ DigitsAt(str, 8, 2) >= 1
    /\ DigitsAt(str, 8, 2) <= DaysInMonth(DigitsAt(str, 0, 4), DigitsAt(str, 5, 2))

\* The time part at position 10 is THH:mm, THH:mm:ss or THH:mm:ss.sss; its
\* length, or -1.
TimeLen(str) ==
    IF ~(/\ CharAt(str, 10) \in {Ord("T"), Ord("t")}
         /\ DigitsAt(str, 11, 2) >= 0 /\ DigitsAt(str, 11, 2) <= 23
         /\ CharAt(str, 13) = Ord(":")
         /\ DigitsAt(str, 14, 2) >= 0 /\ DigitsAt(str, 14, 2) <= 59)
    THEN 0 - 1
    ELSE IF CharAt(str, 16) # Ord(":") THEN 6
    ELSE IF ~(DigitsAt(str, 17, 2) >= 0 /\ DigitsAt(str, 17, 2) <= 59) THEN 0 - 1
    ELSE IF CharAt(str, 19) # Ord(".") THEN 9
    ELSE IF DigitsAt(str, 20, 3) >= 0 THEN 13 ELSE 0 - 1

\* The offset from UTC, in minutes, written from position p to the end of the
\* text: nothing (the zone of the browser), Z, or a sign and HH:mm.  The value
\* is beyond a day when the text does not end in one of these.
NoOffset == 100 * 1000

OffsetAt(str, p, local) ==
    IF p = Len(str) THEN local
    ELSE IF p + 1 = Len(str) /\ CharAt(str, p) \in {Ord("Z"), Ord("z")} THEN 0
    ELSE IF /\ p + 6 = Len(str)
            /\ CharAt(str, p) \in {cPlus, cMinus}
            /\ DigitsAt(str, p + 1, 2) >= 0 /\ DigitsAt(str, p + 1, 2) <= 23
            /\ CharAt(str, p + 3) = Ord(":")
            /\ DigitsAt(str, p + 4, 2) >= 0 /\ DigitsAt(str, p + 4, 2) <= 59
    THEN (IF CharAt(str, p) = cMinus THEN 0 - 1 ELSE 1)
             * (DigitsAt(str, p + 1, 2) * 60 + DigitsAt(str, p + 4, 2))
    ELSE NoOffset

DateTimeValue(str, tl, off) ==
    IF off = NoOffset THEN NaN
    ELSE Num(EpochMs(DigitsAt(str, 0, 4), DigitsAt(str, 5, 2), DigitsAt(str, 8, 2),
                     DigitsAt(str, 11, 2), DigitsAt(str, 14, 2),
                     IF tl >= 9 THEN DigitsAt(str, 17, 2) ELSE 0,
                     IF tl = 13 THEN DigitsAt(str, 20, 3) ELSE 0,
                     off))

\* new Date(str).getTime() for a text str: the date-time format of ECMAScript
\* (a date alone is UTC, a date and time without offset is in the zone of
\* the browser, local minutes east of UTC).  Every other text is taken as an
\* invalid date; the further formats an engine may accept are not modelled.
DateParse(str, local) ==
    IF ~DateOk(str) THEN NaN
    ELSE IF Len(str) = 10
    THEN Num(EpochMs(DigitsAt(str, 0, 4), DigitsAt(str, 5, 2), DigitsAt(str, 8, 2),
                     0, 0, 0, 0, 0))
    ELSE IF TimeLen(str) < 0 THEN NaN
    ELSE DateTimeValue(str, TimeLen(str), OffsetAt(str, 10 + TimeLen(str), local))

\* The digits of an optional group (\d+)U of the duration pattern at position
\* i, U being the unit letter in upper case: where the group ends, or i when
\* there is no such group.
GroupEnd(str, i, unit) ==
    IF DigitsEnd(str, i) > i /\ Upper(CharAt(str, DigitsEnd(str, i))) = unit
    THEN DigitsEnd(str, i) + 1 ELSE i

\* parseInt(match[k] || "0", 10) for the group that ends at e
GroupValue(str, i, e) ==
    IF e = i THEN 0 ELSE DigitsToNum(SubSeq(str, i + 1, e - 1), N(0)).lo

DurationAfterM(str, h, hEnd, mEnd, sEnd) ==
    IF sEnd # Len(str) THEN Null
    ELSE Num(NMul1000(N(h * 3600 + GroupValue(str, hEnd, mEnd) * 60
                           + GroupValue(str, mEnd, sEnd))))

DurationAfterH(str, i, hEnd, mEnd) ==
    DurationAfterM(str, GroupValue(str, i, hEnd), hEnd, mEnd,
                   GroupEnd(str, mEnd, Ord("S")))

DurationGroups(str, i, hEnd) ==
    DurationAfterH(str, i, hEnd, GroupEnd(str, hEnd, Ord("M")))

DurationBody(str, i) ==
    IF Upper(CharAt(str, i)) # Ord("P") THEN Null
    ELSE IF Upper(CharAt(str, i + 1)) = Ord("T")
    THEN DurationGroups(str, i + 2, GroupEnd(str, i + 2, Ord("H")))
    ELSE DurationGroups(str, i + 1, GroupEnd(str, i + 1, Ord("H")))

\* parseDuration(dur) for a text dur: the milliseconds of
\* /^-?PT?(?:(\d+)H)?(?:(\d+)M)?(?:(\d+)S)?$/i, or null.
parseDuration(dur) ==
    IF dur = << >> THEN Null
    ELSE DurationBody(dur, IF Head(dur) = cMinus THEN 1 ELSE 0)

NoRange ==
    [kind |-> "null", source |-> "none", start |-> Undef, end |-> Undef, raw |-> "none"]

HungRange == [NoRange EXCEPT !.kind = "hangs"]

Range(source, start, end, raw) ==
    [kind |-> "range", source |-> source, start |-> start, end |-> end, raw |-> raw]

DurationRange(ms, t) ==
    IF ~Truthy(ms) THEN NoRange
    ELSE Range("none", VSub(Num(t), ms), Num(t), "relative")

\* relativeToAbsolute(durationStr) for a text, at the time t
relativeToAbsolute(durationStr, t) ==
    DurationRange(parseDuration(IF durationStr # << >> /\ Head(durationStr) = cMinus
                                THEN Tail(durationStr) ELSE durationStr), t)

(***************************************************************************)
(* The content script: parsers                                             *)
(***************************************************************************)

kStart == T(<<"s", "t", "a", "r", "t">>)
kEnd == T(<<"e", "n", "d">>)
kPeriod == T(<<"p", "e", "r", "i", "o", "d">>)
kTimeType == T(<<"t", "i", "m", "e", "T", "y", "p", "e">>)
kTimeRange == T(<<"t", "i", "m", "e", "R", "a", "n", "g", "e">>)
kUnit == T(<<"u", "n", "i", "t">>)
kValue == T(<<"v", "a", "l", "u", "e">>)
tRelative == T(<<"R", "E", "L", "A", "T", "I", "V", "E">>)
tGraphEq == T(<<"g", "r", "a", "p", "h", "=">>)
tQueryDetailEq == T(<<"q", "u", "e", "r", "y", "D", "e", "t", "a", "i", "l", "=">>)
tTimeRangeEq == T(<<"t", "i", "m", "e", "R", "a", "n", "g", "e", "=">>)
tStartEq == T(<<"s", "t", "a", "r", "t", "=">>)
tEndEq == T(<<"e", "n", "d", "=">>)
tMinusP == T(<<"-", "P">>)
tDollar == T(<<"$">>)
tPercent == T(<<"%">>)
tCode3F == T(<<"$", "3", "F">>)
tCode3D == T(<<"$", "3", "D">>)
tCode26 == T(<<"$", "2", "6">>)
tQuestion == T(<<"?">>)
tEquals == T(<<"=">>)
tAmpersand == T(<<"&">>)
tColonQuestion == T(<<":", "?">>)
tTildeParen == T(<<"~", "(">>)

\* window.JSURL.tryParse(text, null)
TryParseText(text) == JsurlTryParse(Str(text), Null)

\* typeof v === "string" ? new Date(v).getTime() : v
DateOrValue(v, z) == IF v.t = "string" THEN DateParse(v.s, z) ELSE v

\* The "period" branch of parseCloudWatchMetrics.  A truthy period that is no
\* text has no replace method: the TypeError is caught and the result is null.
MetricsPeriodRange(r) ==
    IF r.kind = "range" THEN [r EXCEPT !.source = "CloudWatch Metrics"] ELSE NoRange

MetricsPeriod(graphObj, t) ==
    IF ~Truthy(Get(graphObj, kPeriod)) THEN NoRange
    ELSE IF Get(graphObj, kPeriod).t # "string" THEN NoRange
    ELSE MetricsPeriodRange(relativeToAbsolute(Get(graphObj, kPeriod).s, t))

\* if (result.start && result.end && !isNaN(result.start) && !isNaN(result.end))
MetricsResult(graphObj, t, start, end, raw) ==
    IF Truthy(start) /\ Truthy(end) /\ ~IsNaN(start) /\ ~IsNaN(end)
    THEN Range("CloudWatch Metrics", start, end, raw)
    ELSE MetricsPeriod(graphObj, t)

MetricsRelative(graphObj, t, r) ==
    IF r.kind = "range" THEN MetricsResult(graphObj, t, r.start, r.end, "relative")
    ELSE MetricsPeriod(graphObj, t)

MetricsFields(graphObj, t, z, startVal, endVal) ==
    IF ~(Truthy(startVal) /\ Truthy(endVal)) THEN MetricsPeriod(graphObj, t)
    ELSE IF startVal.t = "string" /\ StartsWith(startVal.s, tMinusP)
    THEN MetricsRelative(graphObj, t, relativeToAbsolute(startVal.s, t))
    ELSE MetricsResult(graphObj, t, DateOrValue(startVal, z), DateOrValue(endVal, z),
                       "absolute")

MetricsDecoded(o, t, z) ==
    IF o.kind = "hangs" THEN HungRange
    ELSE IF ~Truthy(o.val) THEN NoRange
    ELSE MetricsFields(o.val, t, z, Get(o.val, kStart), Get(o.val, kEnd))

MetricsMatched(graphMatch, t, z) ==
    IF ~graphMatch.found THEN NoRange
    ELSE MetricsDecoded(TryParseText(graphMatch.val), t, z)

\* parseCloudWatchMetrics(), for the hash h, the time t and the zone z
parseCloudWatchMetrics(h, t, z) ==
    MetricsMatched(MatchParam(h, tGraphEq, {cAmp, cSemi}, FALSE), t, z)

\* multipliers[obj.unit] || 1000, as a factor of 1000: the own entries, the
\* fallback, or 0 for a member inherited from Object.prototype, which is no
\* number.
InheritedNames ==
    { T(<<"c", "o", "n", "s", "t", "r", "u", "c", "t", "o", "r">>), T(<<"t", "o", "S", "t",
            "r", "i", "n", "g">>), T(<<"t", "o", "L", "o", "c", "a", "l", "e", "S", "t", "r",
            "i", "n", "g">>), T(<<"v", "a", "l", "u", "e", "O", "f">>), T(<<"h", "a", "s",
            "O", "w", "n", "P", "r", "o", "p", "e", "r", "t", "y">>),
      T(<<"i", "s", "P", "r", "o", "t", "o", "t", "y", "p", "e", "O", "f">>), T(<<"p", "r",
              "o", "p", "e", "r", "t", "y", "I", "s", "E", "n", "u", "m", "e", "r", "a", "b",
              "l", "e">>), T(<<"_", "_", "p", "r", "o", "t", "o", "_", "_">>), T(<<"_", "_",
              "d", "e", "f", "i", "n", "e", "G", "e", "t", "t", "e", "r", "_", "_">>),
      T(<<"_", "_", "d", "e", "f", "i", "n", "e", "S", "e", "t", "t", "e", "r", "_", "_">>),
              T(<<"_", "_", "l", "o", "o", "k", "u", "p", "G", "e", "t", "t", "e", "r", "_",
              "_">>), T(<<"_", "_", "l", "o", "o", "k", "u", "p", "S", "e", "t", "t", "e",
              "r", "_", "_">>) }

\* x * k for a small k
NScale(x, k) == Norm(x.hi * k, x.lo * k)

UnitMillis(v, unitText) ==
    IF v.t # "number" THEN NaN
    ELSE IF unitText = T(<<"m">>) THEN Num(NScale(NMul1000(v.n), 60))
    ELSE IF unitText = T(<<"h">>) THEN Num(NScale(NScale(NMul1000(v.n), 60), 60))
    ELSE IF unitText = T(<<"d">>) THEN Num(NScale(NScale(NScale(NMul1000(v.n), 60), 60), 24))
    ELSE IF unitText \in InheritedNames THEN NaN
    ELSE Num(NMul1000(v.n))

\* The scaling with the bound of ten billion that the comment of the source
\* names.
ScaleBelowTenBillion(v) ==
    IF VLess(v, Num([hi |-> 10000, lo |-> 0])) THEN VMul1000(v) ELSE v

\* start, or end, of the Absolute branch: seconds below 1e12 become
\* milliseconds.
ScaleSeconds(v) == IF VLess(v, Num(N1e12)) THEN VMul1000(v) ELSE v

NumberOrInt(v) == IF IsNumber(v) THEN v ELSE ParseInt(v)

\* parseCloudWatchLogsInsights() from the decoded object on; present tells
\* that the object passed the test on start and end of the script.
InsightsRange(obj, t, present) ==
    IF present
    THEN IF \/ Get(obj, kTimeType) = Str(tRelative)
            \/ (IsNumber(Get(obj, kStart)) /\ VLess(Get(obj, kStart), Num(N(0))))
         THEN Range("CloudWatch Logs Insights",
                    VAdd(Num(t), VMul1000(NumberOrInt(Get(obj, kStart)))),
                    Num(t), "relative")
         ELSE Range("CloudWatch Logs Insights",
                    ScaleSeconds(NumberOrInt(Get(obj, kStart))),
                    ScaleSeconds(NumberOrInt(Get(obj, kEnd))), "absolute")
    ELSE IF Truthy(Get(obj, kUnit)) /\ Truthy(Get(obj, kValue))
    THEN Range("CloudWatch Logs Insights",
               VSub(Num(t), UnitMillis(ParseInt(Get(obj, kValue)),
                                       ToText(Get(obj, kUnit)))),
               Num(t), "relative")
    ELSE NoRange

\* Format A: the value of queryDetail= with $ put back to %, percent-decoded
\* and decoded as a Value.  A URIError leaves the object null.
InsightsDecodedA(d) == IF d.ok THEN TryParseText(d.val) ELSE Returned(Null)

InsightsObjectA(qdMatchA) ==
    IF ~qdMatchA.found THEN Returned(Null)
    ELSE InsightsDecodedA(DecodeURIComponent(ReplaceAll(qdMatchA.val, tDollar,
                                                        tPercent, FALSE)))

\* Format B: the raw value of queryDetail$3D, decoded as a Value.
InsightsObjectB(qdMatchB) ==
    IF ~qdMatchB.found THEN Returned(Null) ELSE TryParseText(qdMatchB.val)

InsightsFromObject(o, t) ==
    IF o.kind = "hangs" THEN HungRange
    ELSE IF ~Truthy(o.val) THEN NoRange
    ELSE InsightsRange(o.val, t,
                       NotNullish(Get(o.val, kStart)) /\ NotNullish(Get(o.val, kEnd)))

InsightsAfterA(h, t, oA) ==
    IF oA.kind = "hangs" \/ Truthy(oA.val) THEN InsightsFromObject(oA, t)
    ELSE InsightsFromObject(
             InsightsObjectB(MatchParam(h, tQueryDetailCoded, {cAmp, cSemi}, TRUE)), t)

\* parseCloudWatchLogsInsights() of the bundled content script
parseCloudWatchLogsInsights(h, t) ==
    InsightsAfterA(h, t, InsightsObjectA(MatchParam(h, tQueryDetailEq, {cAmp, cSemi},
                                                    FALSE)))

contentInsightsFromObject(o, t) ==
    IF o.kind = "hangs" THEN HungRange
    ELSE IF ~Truthy(o.val) THEN NoRange
    ELSE InsightsRange(o.val, t, Truthy(Get(o.val, kStart)) /\ Truthy(Get(o.val, kEnd)))

\* parseCloudWatchLogsInsights() of src/content/content.js: Format A alone, a
\* URIError is caught by the outer try, start and end are tested for truth.
contentParseCloudWatchLogsInsights(h, t) ==
    contentInsightsFromObject(
        InsightsObjectA(MatchParam(h, tQueryDetailEq, {cAmp, cSemi}, FALSE)), t)

RECURSIVE FormDecode(_, _)
FormDecodeByte(str, i, b, u) ==
    IF b < 0 THEN << cPct >> \o FormDecode(str, i + 1)
    ELSE IF b < 128 THEN << b >> \o FormDecode(str, i + 3)
    ELSE IF u.cp >= 0 /\ ValidCodePoint(u)
    THEN CodeUnits(u.cp) \o FormDecode(str, i + 3 * u.n)
    ELSE << 65533 >> \o FormDecode(str, i + 3)

FormDecodePlain(str, i, p) ==
    IF p >= Len(str) THEN Substring(str, i, p)
    ELSE IF str[p + 1] = cPlus THEN Substring(str, i, p) \o << 32 >> \o FormDecode(str, p + 1)
    ELSE Substring(str, i, p)
             \o FormDecodeByte(str, p, PctByte(str, p), Utf8At(str, p, PctByte(str, p)))

\* The decoding of a name or a value of a query string: "+" is a space, %HH is
\* a byte of UTF-8, a % that starts no escape stays, a byte that is not part
\* of a well-formed sequence becomes U+FFFD.
FormDecode(str, i) == FormDecodePlain(str, i, Run(str, i, {cPlus, cPct}))

RECURSIVE FormGet(_, _, _)
FormPair(str, name, i, e, q) ==
    IF e > i /\ FormDecode(Substring(str, i, Min(q, e)), 0) = name
    THEN Str(FormDecode(Substring(str, q + 1, e), 0))
    ELSE FormGet(str, name, e + 1)

\* The first value of the parameter name among the pairs of str from position
\* i on, or null.
FormGet(str, name, i) ==
    IF i >= Len(str) THEN Null
    ELSE FormPair(str, name, i, Run(str, i, {cAmp}),
                  Run(str, i, {cAmp, cEq}))

\* new URLSearchParams(query).get(name)
SearchParamsGet(query, name) ==
    FormGet(query, name, IF query # << >> /\ Head(query) = cQMark THEN 1 ELSE 0)

XRayAbsolute(start, end) ==
    IF IsNaN(start) \/ IsNaN(end) THEN NoRange
    ELSE Range("X-Ray", start, end, "absolute")

XRayRelative(r) ==
    IF r.kind = "range" THEN [r EXCEPT !.source = "X-Ray"] ELSE NoRange

\* parts = timeRange.split("~"): parts[0] and parts[1]
XRaySplit(timeRange, p, z) ==
    XRayAbsolute(DateParse(Substring(timeRange, 0, p), z),
                 DateParse(Substring(timeRange, p + 1,
                                     Run(timeRange, p + 1, {cTilde})), z))

XRayValue(timeRange, t, z) ==
    IF ~Truthy(timeRange) THEN NoRange
    ELSE IF Includes(timeRange.s, << cTilde >>)
    THEN XRaySplit(timeRange.s, IndexOf(timeRange.s, << cTilde >>), z)
    ELSE XRayRelative(relativeToAbsolute(timeRange.s, t))

XRayHashValue(hashMatch) == IF hashMatch.found THEN Str(hashMatch.val) ELSE Null

XRayFromSearch(timeRange, h, t, z) ==
    IF ~Truthy(timeRange) /\ h # << >>
    THEN XRayValue(XRayHashValue(MatchParam(h, tTimeRangeEq, {cAmp}, FALSE)), t, z)
    ELSE XRayValue(timeRange, t, z)

\* parseXRay(), for the query q, the hash h, the time t and the zone z
parseXRay(q, h, t, z) == XRayFromSearch(SearchParamsGet(q, kTimeRange), h, t, z)

\* Where the digits of -?\d+ start at position p.
DigitsStart(str, p) == IF CharAt(str, p) = cMinus THEN p + 1 ELSE p

\* Does /[?&]name-?\d+/ match at position i?
SignedParamAt(str, name, i) ==
    /\ CharAt(str, i) \in {cQMark, cAmp}
    /\ MatchesAt(str, name, i + 1)
    /\ DigitsEnd(str, DigitsStart(str, i + 1 + Len(name)))
           > DigitsStart(str, i + 1 + Len(name))

SignedParamFrom(str, p) ==
    IF p < 0 THEN NoMatch ELSE ParamAt(str, p, DigitsEnd(str, DigitsStart(str, p)))

SignedParamFirst(str, name, i) ==
    IF i < 0 THEN NoMatch ELSE SignedParamFrom(str, i + 1 + Len(name))

\* str.match(/[?&]name(-?\d+)/)
SignedParam(str, name) ==
    SignedParamFirst(str, name,
                     First({i \in 0..(Len(str) - 1) : SignedParamAt(str, name, i)}))

\* hash.replace(/\$3F/gi, "?").replace(/\$3D/gi, "=").replace(/\$26/gi, "&")
Normalize(h) ==
    ReplaceAll(ReplaceAll(ReplaceAll(h, tCode3F, tQuestion, TRUE),
                          tCode3D, tEquals, TRUE),
               tCode26, tAmpersand, TRUE)

LogsChecked(start, end, raw) ==
    IF IsNaN(start) \/ IsNaN(end) THEN NoRange
    ELSE Range("CloudWatch Logs", start, end, raw)

LogsRange(startVal, endVal, t) ==
    IF VLess(startVal, Num(N(0)))
    THEN LogsChecked(VAdd(Num(t), startVal),
                     IF NotNullish(endVal) /\ VLess(endVal, Num(N(0)))
                     THEN VAdd(Num(t), endVal) ELSE Num(t),
                     "relative")
    ELSE LogsChecked(startVal, IF NotNullish(endVal) THEN endVal ELSE Num(t),
                     "absolute")

LogsMatched(startMatch, endMatch, t) ==
    IF ~startMatch.found THEN NoRange
    ELSE LogsRange(ParseInt10(startMatch.val),
                   IF endMatch.found THEN ParseInt10(endMatch.val) ELSE Null, t)

LogsNormalized(normalized, t) ==
    LogsMatched(SignedParam(normalized, tStartEq), SignedParam(normalized, tEndEq), t)

\* parseCloudWatchLogs(), for the hash h and the time t
parseCloudWatchLogs(h, t) == LogsNormalized(Normalize(h), t)

GenericChecked(start, end, raw) ==
    IF IsNaN(start) \/ IsNaN(end) THEN NoRange
    ELSE Range("CloudWatch", start, end, raw)

\* parseCloudWatchGeneric() from the timeRange field on; arrays tells whether
\* the script knows the two-element array.  (A null timeRange fails on
\* tr.start with a TypeError, which is caught.)
GenericShape(tr, t, z, arrays) ==
    IF IsNumber(tr) THEN GenericChecked(VSub(Num(t), tr), Num(t), "relative")
    ELSE IF arrays /\ tr.t = "array" /\ Len(tr.a) = 2
    THEN GenericChecked(tr.a[1], tr.a[2], "absolute-array")
    ELSE IF /\ tr.t = "object"
            /\ Truthy(Get(tr, kStart))
            /\ Truthy(Get(tr, kEnd))
    THEN GenericChecked(DateOrValue(Get(tr, kStart), z), DateOrValue(Get(tr, kEnd), z),
                        "absolute")
    ELSE NoRange

GenericState(o, t, z, arrays) ==
    IF o.kind = "hangs" THEN HungRange
    ELSE IF ~Truthy(o.val) THEN NoRange
    ELSE IF Get(o.val, kTimeRange) = Undef THEN NoRange
    ELSE GenericShape(Get(o.val, kTimeRange), t, z, arrays)

GenericFrom(h, t, z, qIdx) ==
    IF qIdx < 0 THEN NoRange
    ELSE IF SubstringFrom(h, qIdx + 1) = << >> THEN NoRange
    ELSE GenericState(TryParseText(SubstringFrom(h, qIdx + 1)), t, z, TRUE)

\* parseCloudWatchGeneric() of the bundled content script
parseCloudWatchGeneric(h, t, z) == GenericFrom(h, t, z, IndexOf(h, tStateMarker))

contentGenericFrom(h, t, z, sepIdx) ==
    IF sepIdx < 0 THEN NoRange
    ELSE IF ~StartsWith(SubstringFrom(h, sepIdx + 2), tTildeParen) THEN NoRange
    ELSE GenericState(TryParseText(SubstringFrom(h, sepIdx + 2)), t, z, FALSE)

\* parseCloudWatchGeneric() of src/content/content.js
contentParseCloudWatchGeneric(h, t, z) ==
    contentGenericFrom(h, t, z, IndexOf(h, tColonQuestion))

(***************************************************************************)
(* The content script: what the injectors use of the browser               *)
(***************************************************************************)

TwoDigits(k) == << cZero + (k \div 10), cZero + (k % 10) >>

FourDigits(k) == TwoDigits(k \div 100) \o TwoDigits(k % 100)

ThreeDigits(k) == << cZero + (k \div 100) >> \o TwoDigits(k % 100)

\* The civil date of a day counted from 1970-01-01.
CivilOf(doe, era) ==
    LET yoe == (doe - (doe \div 1460) + (doe \div 36524) - (doe \div 146096)) \div 365
        doy == doe - (365 * yoe + (yoe \div 4) - (yoe \div 100))
        mp == (5 * doy + 2) \div 153
        m == IF mp < 10 THEN mp + 3 ELSE mp - 9
    IN  [y |-> yoe + era * 400 + (IF m <= 2 THEN 1 ELSE 0), m |-> m,
         d |-> doy - ((153 * mp + 2) \div 5) + 1]

CivilFromDays(days) ==
    CivilOf((days + 719468) % 146097, (days + 719468) \div 146097)

\* Whole seconds of a number of milliseconds, as an integer.
SecondsOf(x) == NFloorDiv1000(x).hi * Base + NFloorDiv1000(x).lo

DateText(c) == FourDigits(c.y) \o T(<<"-">>) \o TwoDigits(c.m) \o T(<<"-">>) \o TwoDigits(c.d)

ClockText(s) ==
    TwoDigits(s \div 3600) \o T(<<":">>) \o TwoDigits((s % 3600) \div 60) \o T(<<":">>)
        \o TwoDigits(s % 60)

\* The date and time of day, YYYY-MM-DDTHH:MM:SS, of a count of seconds from
\* the epoch.
CivilText(secs) ==
    DateText(CivilFromDays(secs \div 86400)) \o T(<<"T">>) \o ClockText(secs % 86400)

\* Minutes east of UTC of Asia/Tokyo.
TokyoOffset == 9 * 60

\* toJSTString(epochMs) for a number: the wall clock of Asia/Tokyo, seconds
\* resolution, ".000" appended.
toJSTString(epochMs) == CivilText(SecondsOf(epochMs.n) + TokyoOffset * 60) \o T(<<".", "0",
        "0", "0">>)

\* new Date(epochMs).toISOString()
toISOString(epochMs) ==
    CivilText(SecondsOf(epochMs.n)) \o T(<<".">>)
        \o ThreeDigits(NSub(epochMs.n, NMul1000(NFloorDiv1000(epochMs.n))).lo) \o T(<<"Z">>)

\* The bytes of the UTF-8 encoding of a code point below 65536, each as %HH.
PctHex(b) == << cPct, HexChars[(b \div 16) + 1], HexChars[(b % 16) + 1] >>

PctUtf8(cp) ==
    IF cp < 128 THEN PctHex(cp)
    ELSE IF cp < 2048 THEN PctHex(192 + (cp \div 64)) \o PctHex(128 + (cp % 64))
    ELSE PctHex(224 + (cp \div 4096)) \o PctHex(128 + ((cp \div 64) % 64))
             \o PctHex(128 + (cp % 64))

IsAlnum(c) ==
    \/ IsDigit(c)
    \/ (c >= Ord("a") /\ c <= Ord("z"))
    \/ (c >= Ord("A") /\ c <= Ord("Z"))

IsSurrogate(c) == c >= 55296 /\ c <= 57343

\* What encodeURIComponent leaves as it is.
UriUnreserved == { Ord("-"), Ord("_"), Ord("."), Ord("!"), Ord("~"), Ord("*"), Ord("'"),
                   Ord("("), Ord(")") }

UriUnit(c) == IF IsAlnum(c) \/ c \in UriUnreserved THEN << c >> ELSE PctUtf8(c)

\* encodeURIComponent(text); a text with a surrogate is outside the model
\* (ok = FALSE stands for the URIError of a lone surrogate).
EncodeURIComponent(text) ==
    [ok |-> \A i \in 1..Len(text) : ~IsSurrogate(text[i]),
     val |-> Concat([i \in 1..Len(text) |-> UriUnit(text[i])])]

\* The fragment percent-encode set of the URL standard.
\* space, the double quote, < > and the backquote
FragmentSet == { 32, 34, 60, 62, 96 }

FragmentUnit(c) ==
    IF c \in {9, 10, 13} THEN << >>
    ELSE IF c < 32 \/ c > 126 \/ c \in FragmentSet THEN PctUtf8(c)
    ELSE << c >>

\* location.hash after  window.location.hash = text  (and url.hash = text):
\* one leading # is dropped, tabs and line ends are removed, what the
\* fragment may not hold is percent-encoded; an empty fragment reads as the
\* empty text.
SetHash(text) ==
    LET body == IF text # << >> /\ Head(text) = cHashCh THEN Tail(text) ELSE text
        coded == Concat([i \in 1..Len(body) |-> FragmentUnit(body[i])])
    IN  IF coded = << >> THEN << >> ELSE << cHashCh >> \o coded

\* The replacement text of str.replace(regexp, template) for the match
\* str[at..e) with the captures groups: $$ is $, $& the match, $` and $' the
\* text before and after it, $n the n-th capture when there is one; a
\* two-digit $nn beyond the captures is read as $n and a digit; every other $
\* stands for itself.
RECURSIVE Expand(_, _, _, _, _)
ExpandAt(template, str, at, e, groups, p) ==
    IF p >= Len(template) THEN template
    ELSE LET c == CharAt(template, p + 1)
             head == Substring(template, 0, p)
             rest(k) == Expand(SubstringFrom(template, p + k), str, at, e, groups)
         IN  IF c = cDollar THEN head \o << cDollar >> \o rest(2)
             ELSE IF c = cAmp THEN head \o Substring(str, at, e) \o rest(2)
             ELSE IF c = 96 THEN head \o Substring(str, 0, at) \o rest(2)
             ELSE IF c = cQuote THEN head \o SubstringFrom(str, e) \o rest(2)
             ELSE IF /\ IsDigit(c)
                     /\ IsDigit(CharAt(template, p + 2))
                     /\ (c - cZero) * 10 + (CharAt(template, p + 2) - cZero) \in 1..Len(groups)
             THEN head \o groups[(c - cZero) * 10 + (CharAt(template, p + 2) - cZero)]
                      \o rest(3)
             ELSE IF IsDigit(c) /\ (c - cZero) \in 1..Len(groups)
             THEN head \o groups[c - cZero] \o rest(2)
             ELSE head \o << cDollar >> \o rest(1)

Expand(template, str, at, e, groups) ==
    ExpandAt(template, str, at, e, groups, Run(template, 0, {cDollar}))

\* str with str[at..e) replaced by the expansion of template
Splice(str, at, e, template, groups) ==
    Substring(str, 0, at) \o Expand(template, str, at, e, groups) \o SubstringFrom(str, e)

(***************************************************************************)
(* The content script: the injectors.  Each one answers with its return    *)
(* value and the hash the address has afterwards.                          *)
(***************************************************************************)

\* The hash is written and the call returns true.
Injected(h) == [kind |-> "true", hash |-> h]
\* The call returns false, or never returns; the hash h stays as it is.
NotInjected(h) == [kind |-> "false", hash |-> h]
HungInject(h) == [kind |-> "hangs", hash |-> h]

\* Strict mode: a property can be set on an object and on an array; on a
\* primitive the assignment throws a TypeError.
Assignable(v) == v.t \in {"object", "array"}

\* v[key] = val.  A named property of an array is not among its elements,
\* which is all that JSURL.stringify writes.
SetField(v, key, val) == IF v.t = "object" THEN Obj(ObjSet(v.m, key, val)) ELSE v

tAbsolute == T(<<"A", "B", "S", "O", "L", "U", "T", "E">>)
tQueryDetailCodedEq == T(<<"q", "u", "e", "r", "y", "D", "e", "t", "a", "i", "l", "$", "3",
        "D">>)
tEndCodedEq == T(<<"$", "2", "6", "e", "n", "d", "$", "3", "D">>)
tAmpTimeRangeEq == T(<<"&", "t", "i", "m", "e", "R", "a", "n", "g", "e", "=">>)

\* text.replace(/^#/, "")
StripHash(text) == IF text # << >> /\ Head(text) = cHashCh THEN Tail(text) ELSE text

\* hash.replace(/name[^stops]*/, template) for the match m of /name([^stops]*)/
ReplaceParam(h, name, m, template) ==
    Splice(h, m.at - Len(name), m.at + Len(m.val), template, << >>)

MetricsWritten(h, graphMatch, graphObj) ==
    Injected(SetHash(ReplaceParam(h, tGraphEq, graphMatch,
                                  tGraphEq \o JsurlStringify(graphObj))))

MetricsInjectDecoded(h, graphMatch, o, startText, endText) ==
    IF o.kind = "hangs" THEN HungInject(h)
    ELSE IF ~Truthy(o.val) \/ ~Assignable(o.val) THEN NotInjected(h)
    ELSE MetricsWritten(h, graphMatch,
                        SetField(SetField(o.val, kStart, Str(startText)),
                                 kEnd, Str(endText)))

MetricsInjectMatched(h, graphMatch, startText, endText) ==
    IF ~graphMatch.found THEN NotInjected(h)
    ELSE MetricsInjectDecoded(h, graphMatch, TryParseText(graphMatch.val),
                              startText, endText)

\* injectCloudWatchMetrics(timeRange) of the bundled content script
injectCloudWatchMetrics(h, timeRange) ==
    MetricsInjectMatched(h, MatchParam(h, tGraphEq, {cAmp, cSemi}, FALSE),
                         toJSTString(timeRange.start), toJSTString(timeRange.end))

\* injectCloudWatchMetrics(timeRange) of src/content/content.js
contentInjectCloudWatchMetrics(h, timeRange) ==
    MetricsInjectMatched(h, MatchParam(h, tGraphEq, {cAmp, cSemi}, FALSE),
                         toISOString(timeRange.start), toISOString(timeRange.end))

\* obj.start = Math.floor(timeRange.start / 1000), obj.end likewise,
\* obj.timeType = "ABSOLUTE"
InsightsFields(obj, timeRange) ==
    SetField(SetField(SetField(obj, kStart, Num(NFloorDiv1000(timeRange.start.n))),
                      kEnd, Num(NFloorDiv1000(timeRange.end.n))),
             kTimeType, Str(tAbsolute))

\* Format B: queryDetail$3D followed by the raw JSURL text
InsightsWrittenB(h, qdMatchB, newJsurl) ==
    Injected(SetHash(ReplaceParam(h, tQueryDetailCoded, qdMatchB,
                                  tQueryDetailCodedEq \o newJsurl)))

\* Format A: encodeURIComponent(newJsurl).replace(/%/g, "$"); a lone
\* surrogate makes encodeURIComponent throw.
InsightsEncodedA(h, qdMatchA, newEncoded) ==
    IF ~newEncoded.ok THEN NotInjected(h)
    ELSE Injected(SetHash(ReplaceParam(h, tQueryDetailEq, qdMatchA,
                      tQueryDetailEq
                          \o ReplaceAll(newEncoded.val, tPercent, tDollar, FALSE))))

InsightsWritten(h, qdMatch, isFormatB, newJsurl) ==
    IF isFormatB THEN InsightsWrittenB(h, qdMatch, newJsurl)
    ELSE InsightsEncodedA(h, qdMatch, EncodeURIComponent(newJsurl))

\* The part of the injector after  if (!obj) return false
InsightsWrite(h, timeRange, qdMatch, isFormatB, obj) ==
    IF ~Assignable(obj) THEN NotInjected(h)
    ELSE InsightsWritten(h, qdMatch, isFormatB,
                         JsurlStringify(InsightsFields(obj, timeRange)))

InsightsInjectB(h, timeRange, qdMatchB, o) ==
    IF o.kind = "hangs" THEN HungInject(h)
    ELSE IF ~Truthy(o.val) THEN NotInjected(h)
    ELSE InsightsWrite(h, timeRange, qdMatchB, TRUE, o.val)

InsightsInjectA(h, timeRange, qdMatchA, oA, qdMatchB) ==
    IF oA.kind = "hangs" THEN HungInject(h)
    ELSE IF Truthy(oA.val) THEN InsightsWrite(h, timeRange, qdMatchA, FALSE, oA.val)
    ELSE IF qdMatchB.found
    THEN InsightsInjectB(h, timeRange, qdMatchB, TryParseText(qdMatchB.val))
    ELSE NotInjected(h)

InsightsInjectMatched(h, timeRange, qdMatchA) ==
    InsightsInjectA(h, timeRange, qdMatchA, InsightsObjectA(qdMatchA),
                    MatchParam(h, tQueryDetailCoded, {cAmp, cSemi}, TRUE))

\* injectCloudWatchLogsInsights(timeRange) of the bundled content script
injectCloudWatchLogsInsights(h, timeRange) ==
    InsightsInjectMatched(h, timeRange,
                          MatchParam(h, tQueryDetailEq, {cAmp, cSemi}, FALSE))

contentInsightsInjectParsed(h, timeRange, qdMatch, o) ==
    IF o.kind = "hangs" THEN HungInject(h)
    ELSE IF ~Truthy(o.val) THEN NotInjected(h)
    ELSE InsightsWrite(h, timeRange, qdMatch, FALSE, o.val)

\* A URIError of decodeURIComponent ends the call.
contentInsightsInjectDecoded(h, timeRange, qdMatch, decoded) ==
    IF ~decoded.ok THEN NotInjected(h)
    ELSE contentInsightsInjectParsed(h, timeRange, qdMatch, TryParseText(decoded.val))

contentInsightsInjectMatched(h, timeRange, qdMatch) ==
    IF ~qdMatch.found THEN NotInjected(h)
    ELSE contentInsightsInjectDecoded(h, timeRange, qdMatch,
             DecodeURIComponent(ReplaceAll(qdMatch.val, tDollar, tPercent, FALSE)))

\* injectCloudWatchLogsInsights(timeRange) of src/content/content.js: Format A
\* only.
contentInjectCloudWatchLogsInsights(h, timeRange) ==
    contentInsightsInjectMatched(h, timeRange,
                                 MatchParam(h, tQueryDetailEq, {cAmp, cSemi}, FALSE))

\* stateObj.timeRange = value; the hash is the prefix and the new state text
GenericWritten(h, prefix, stateObj, value) ==
    IF ~Assignable(stateObj) THEN NotInjected(h)
    ELSE Injected(SetHash(StripHash(prefix)
                          \o JsurlStringify(SetField(stateObj, kTimeRange, value))))

\* if (!stateObj) stateObj = {}
GenericInjectParsed(h, prefix, o, value) ==
    IF o.kind = "hangs" THEN HungInject(h)
    ELSE GenericWritten(h, prefix, IF Truthy(o.val) THEN o.val ELSE Obj(<< >>),
                        value)

GenericInjectFrom(h, at, value) ==
    GenericInjectParsed(h, Substring(h, 0, at), TryParseText(SubstringFrom(h, at)),
                        value)

\* injectCloudWatchGeneric(timeRange) of the bundled content script: the
\* range is written as the array [start, end].
injectCloudWatchGeneric(h, timeRange) ==
    IF IndexOf(h, tStateMarker) < 0 THEN NotInjected(h)
    ELSE GenericInjectFrom(h, IndexOf(h, tStateMarker) + 1,
                           Arr(<< timeRange.start, timeRange.end >>))

\* injectCloudWatchGeneric(timeRange) of src/content/content.js: the state
\* follows ":?", and the range is written as {start, end} of ISO texts.
contentInjectCloudWatchGeneric(h, timeRange) ==
    IF IndexOf(h, tColonQuestion) < 0 THEN NotInjected(h)
    ELSE GenericInjectFrom(h, IndexOf(h, tColonQuestion) + 2,
                           Obj(<< [k |-> kStart, v |-> Str(toISOString(timeRange.start))],
                                  [k |-> kEnd, v |-> Str(toISOString(timeRange.end))] >>))
\* Does name, followed by -?\d+, match at position i?
NumberedAt(str, name, ci, i) ==
    /\ IF ci THEN MatchesAtI(str, name, i) ELSE MatchesAt(str, name, i)
    /\ DigitsEnd(str, DigitsStart(str, i + Len(name)))
           > DigitsStart(str, i + Len(name))

NoSpan == [found |-> FALSE, at |-> 0, e |-> 0]

NumberedFrom(str, n, i) ==
    IF i < 0 THEN NoSpan
    ELSE [found |-> TRUE, at |-> i, e |-> DigitsEnd(str, DigitsStart(str, i + n))]

\* The first match str[at..e) of one of the names (all n long) followed by
\* -?\d+
Numbered(str, names, n, ci) ==
    NumberedFrom(str, n,
                 First({i \in 0..(Len(str) - 1) :
                           \E name \in names : NumberedAt(str, name, ci, i)}))

\* str.replace(regexp, template) for the first match m and its captures
ReplaceSpan(str, m, template, groups) ==
    IF m.found THEN Splice(str, m.at, m.e, template, groups) ELSE str

Matched(str, m) == Substring(str, m.at, m.e)
Lead(str, m) == Substring(str, m.at, m.at + 1)

tGroupEndCoded == T(<<"$", "1", "$", "2", "6", "e", "n", "d", "$", "3", "D">>)
tGroupStartEq == T(<<"$", "1", "s", "t", "a", "r", "t", "=">>)
tGroupEndEq == T(<<"$", "1", "e", "n", "d", "=">>)
tGroupAmpEndEq == T(<<"$", "1", "&", "e", "n", "d", "=">>)
tAmpStartEq == T(<<"&", "s", "t", "a", "r", "t", "=">>)
tAmpEndEq == T(<<"&", "e", "n", "d", "=">>)
tQuestionEndEq == T(<<"?", "e", "n", "d", "=">>)

\* The "end" step of the $3F/$3D branch: replace the end parameter, or add
\* it behind the start parameter.
LogsCodedEnd(newHash, endMs, endMatch, startMatch) ==
    IF endMatch.found
    THEN ReplaceSpan(newHash, endMatch, tEndCodedEq \o ToText(endMs), << >>)
    ELSE IF Includes(newHash, tStartCoded)
    THEN ReplaceSpan(newHash, startMatch, tGroupEndCoded \o ToText(endMs),
                     << Matched(newHash, startMatch) >>)
    ELSE newHash

LogsCodedFrom(newHash, endMs) ==
    LogsCodedEnd(newHash, endMs, Numbered(newHash, {tEndCodedEq}, Len(tEndCodedEq), TRUE),
                 Numbered(newHash, {tStartCoded}, Len(tStartCoded), TRUE))

LogsCoded(h, startMs, endMs) ==
    LogsCodedFrom(ReplaceSpan(h, Numbered(h, {tStartCoded}, Len(tStartCoded), TRUE),
                              tStartCoded \o ToText(startMs), << >>),
                  endMs)

\* The "end" step of the literal branch.
LogsLiteralEnd(normalized, endMs, endMatch, startMatch) ==
    IF endMatch.found
    THEN ReplaceSpan(normalized, endMatch, tGroupEndEq \o ToText(endMs),
                     << Lead(normalized, endMatch) >>)
    ELSE ReplaceSpan(normalized, startMatch, tGroupAmpEndEq \o ToText(endMs),
                     << Matched(normalized, startMatch) >>)

LogsLiteralFrom(normalized, endMs) ==
    LogsLiteralEnd(normalized, endMs,
                   Numbered(normalized, {tQuestionEndEq, tAmpEndEq}, Len(tAmpEndEq), FALSE),
                   Numbered(normalized, {tStartPlain}, Len(tStartPlain), FALSE))

LogsLiteralStart(h, startMs, startMatch) ==
    ReplaceSpan(h, startMatch, tGroupStartEq \o ToText(startMs), << Lead(h, startMatch) >>)

LogsLiteral(h, startMs, endMs) ==
    LogsLiteralFrom(LogsLiteralStart(h, startMs,
                        Numbered(h, {tStartPlain, tAmpStartEq}, Len(tStartPlain), FALSE)),
                    endMs)

\* injectCloudWatchLogs(timeRange): whatever it finds, it writes the hash
\* and returns true.
injectCloudWatchLogs(h, timeRange) ==
    Injected(SetHash(StripHash(
        IF Includes(h, tCode3F) \/ Includes(h, tCode3D)
        THEN LogsCoded(h, timeRange.start, timeRange.end)
        ELSE LogsLiteral(h, timeRange.start, timeRange.end))))

\* The application/x-www-form-urlencoded serialisation of a name or value:
\* letters, digits and * - . _ stay, a space is "+", anything else is the
\* %HH of its UTF-8 bytes (a surrogate is written as U+FFFD; surrogate pairs
\* do not occur in the addresses of the model).
FormUnreserved == { Ord("*"), Ord("-"), Ord("."), Ord("_") }

FormUnit(c) ==
    IF IsAlnum(c) \/ c \in FormUnreserved THEN << c >>
    ELSE IF c = 32 THEN << cPlus >>
    ELSE IF IsSurrogate(c) THEN PctUtf8(65533)
    ELSE PctUtf8(c)

FormEncode(text) == Concat([i \in 1..Len(text) |-> FormUnit(text[i])])

\* new URLSearchParams(query): the list of [name, value] pairs, decoded.
RECURSIVE FormList(_, _)
FormEntry(str, i, e, q) ==
    (IF e > i
     THEN << [name |-> FormDecode(Substring(str, i, Min(q, e)), 0),
              value |-> FormDecode(Substring(str, q + 1, e), 0)] >>
     ELSE << >>) \o FormList(str, e + 1)

FormList(str, i) ==
    IF i >= Len(str) THEN << >>
    ELSE FormEntry(str, i, Run(str, i, {cAmp}), Run(str, i, {cAmp, cEq}))

SearchParams(query) ==
    FormList(query, IF query # << >> /\ Head(query) = cQMark THEN 1 ELSE 0)

\* searchParams.has(name)
SearchParamsHas(list, name) == \E i \in 1..Len(list) : list[i].name = name

\* searchParams.set(name, value): the first pair of that name takes the
\* value and the others of that name go; without one, the pair is appended.
RECURSIVE SetPairs(_, _, _, _)
SetPairs(list, name, value, seen) ==
    IF list = << >> THEN << >>
    ELSE IF Head(list).name # name
    THEN << Head(list) >> \o SetPairs(Tail(list), name, value, seen)
    ELSE (IF seen THEN << >> ELSE << [name |-> name, value |-> value] >>)
             \o SetPairs(Tail(list), name, value, TRUE)

SearchParamsSet(list, name, value) ==
    IF SearchParamsHas(list, name) THEN SetPairs(list, name, value, FALSE)
    ELSE Append(list, [name |-> name, value |-> value])

RECURSIVE FormJoin(_)
FormJoin(list) ==
    IF list = << >> THEN << >>
    ELSE FormEncode(Head(list).name) \o tEquals \o FormEncode(Head(list).value)
             \o (IF Len(list) > 1 THEN tAmpersand ELSE << >>) \o FormJoin(Tail(list))

\* url.search after the list changed: the whole query is written anew
SearchOf(list) == IF list = << >> THEN << >> ELSE tQuestion \o FormJoin(list)

XRayWritten(q, h) == [kind |-> "true", search |-> q, hash |-> h]

XRaySetParam(q, h, list, newTimeRange) ==
    XRayWritten(SearchOf(SearchParamsSet(list, kTimeRange, newTimeRange)), h)

XRayInjectHash(q, h, list, newTimeRange, hashMatch) ==
    IF hashMatch.found
    THEN XRayWritten(q, SetHash(ReplaceParam(h, tTimeRangeEq, hashMatch,
                                             tTimeRangeEq \o newTimeRange)))
    ELSE IF h # << >>
    THEN XRayWritten(q, SetHash(h \o tAmpTimeRangeEq \o newTimeRange))
    ELSE XRaySetParam(q, h, list, newTimeRange)

XRayInject(q, h, list, newTimeRange) ==
    IF SearchParamsHas(list, kTimeRange) THEN XRaySetParam(q, h, list, newTimeRange)
    ELSE XRayInjectHash(q, h, list, newTimeRange, MatchParam(h, tTimeRangeEq, {cAmp}, FALSE))

\* injectXRay(timeRange) of the bundled content script, for the query q and
\* the hash h
injectXRay(q, h, timeRange) ==
    XRayInject(q, h, SearchParams(q),
               toJSTString(timeRange.start) \o << cTilde >> \o toJSTString(timeRange.end))

\* injectXRay(timeRange) of src/content/content.js
contentInjectXRay(q, h, timeRange) ==
    XRayInject(q, h, SearchParams(q),
               toISOString(timeRange.start) \o << cTilde >> \o toISOString(timeRange.end))

(***************************************************************************)
(* The codec on its own: a caller encodes a Value, may cut the text short  *)
(* (an address truncated at a delimiter), and decodes it.                  *)
(***************************************************************************)

MaxItems == 2      \* elements of an array, entries of an object
MaxRawLen == 4     \* length of a text that is not the encoding of anything

SampleStrings ==
    { << >>, T(<<"a">>), T(<<"'">>), T(<<"!">>), T(<<"%">>), T(<<"*">>), << 233 >> }

Atoms ==
    {Null, Bool(TRUE), Bool(FALSE), Num(N(0)), Num(N(0 - 3)), Num(N(42))}
        \cup {Str(x) : x \in SampleStrings}

\* What the containers of the model hold.
ElemValues ==
    {Null, Bool(TRUE), Num(N(0 - 3)), Str(T(<<"a">>)), Str(T(<<"!">>)),
     Arr(<< >>), Obj(<< >>), Arr(<< Num(N(1)) >>),
     Obj(<< [k |-> T(<<"a">>), v |-> Num(N(1))] >>)}

SampleKeys == { T(<<"a">>), T(<<"t", "z">>), T(<<"n", "u", "l", "l">>), T(<<"-", "b">>) }

\* The sequences of at most n elements.
RECURSIVE ItemLists(_)
ItemLists(n) ==
    IF n = 0 THEN { << >> }
    ELSE ItemLists(n - 1)
             \cup { Append(a, v) : a \in {x \in ItemLists(n - 1) : Len(x) = n - 1},
                                   v \in ElemValues }

\* The sequences of at most n entries, no key twice.
RECURSIVE EntryLists(_)
EntryLists(n) ==
    IF n = 0 THEN { << >> }
    ELSE EntryLists(n - 1)
             \cup { Append(p.m, [k |-> p.k, v |-> v]) :
                        p \in { q \in [m : {x \in EntryLists(n - 1) : Len(x) = n - 1},
                                        k : SampleKeys] : ~HasKey(q.m, q.k) },
                        v \in ElemValues }

ArrayValues == { Arr(a) : a \in ItemLists(MaxItems) }

ObjectValues == { Obj(m) : m \in EntryLists(MaxItems) }

CodecValues == Atoms \cup ArrayValues \cup ObjectValues

RawAlphabet == { cTilde, cLParen, cRParen, cQuote, Ord("a"), Ord("1") }

RawTexts == UNION { [1..n -> RawAlphabet] : n \in 1..MaxRawLen }

Defaults == { Null, Str(T(<<"d">>)) }

\* The last operation, what it was applied after, its outcome and the default
\* it was given.
Out(op, pre, r, d) ==
    [op |-> op, pre |-> pre, kind |-> r.kind, val |-> r.val, def |-> d]

\* ---------------------------------------------------------------------------
\* The grammar of section 4.1 of the specification, read as a recognizer.
\* A value is "~" and then null, true, false, an optionally signed run of
\* digits, "'" and a body, or "(" and elements or entries; after "(" a "~"
\* marks an array.  A body runs to the next "~" or ")", and at the top to the
\* end of the text; a key runs to the next "~".  Entries may or may not be separated by a
\* "~".  A text that ends early is accepted wherever what has been read so far
\* can still be continued to a value.  Each recognizer gives the position after
\* what it read, or Reject.
Reject == 0 - 1

Literals == { tNull, tTrue, tFalse }

\* A word that is neither a string nor a container: w is the text of the token
\* up to the next "~" or ")" and atEnd tells that the text ends with it.
GWord(w, atEnd) ==
    \/ w \in Literals
    \/ DigitsEnd(Unsigned(w), 0) = Len(Unsigned(w)) /\ Unsigned(w) # << >>
           /\ (w = Unsigned(w) \/ Head(w) = cMinus)
    \/ atEnd /\ \E l \in Literals : Len(w) < Len(l) /\ SubSeq(l, 1, Len(w)) = w
    \/ atEnd /\ w = << cMinus >>

RECURSIVE GValue(_, _)
RECURSIVE GArray(_, _)
RECURSIVE GObject(_, _)

GWordAt(str, j, e) ==
    IF GWord(Substring(str, j, e), e >= Len(str)) THEN e ELSE Reject

GValue(str, i) ==
    IF i >= Len(str) THEN Len(str)
    ELSE IF str[i + 1] # cTilde THEN Reject
    ELSE IF i + 1 >= Len(str) THEN Len(str)
    ELSE IF str[i + 2] = cQuote THEN Run(str, i + 2, {cTilde, cRParen})
    ELSE IF str[i + 2] = cLParen
    THEN IF i + 2 >= Len(str) THEN Len(str)
         ELSE IF str[i + 3] = cRParen THEN i + 3
         ELSE IF str[i + 3] = cTilde THEN GArray(str, i + 2)
         ELSE GObject(str, i + 2)
    ELSE GWordAt(str, i + 1, Run(str, i + 1, {cTilde, cRParen}))

GArrayNext(str, r) == IF r = Reject THEN Reject ELSE GArray(str, r)

GArray(str, i) ==
    IF i >= Len(str) THEN Len(str)
    ELSE IF str[i + 1] = cRParen THEN i + 1
    ELSE GArrayNext(str, GValue(str, i))

GObjectNext(str, r) ==
    IF r = Reject THEN Reject
    ELSE IF r < Len(str) /\ str[r + 1] = cTilde THEN GObject(str, r + 1)
    ELSE GObject(str, r)

GEntry(str, k) ==
    IF k >= Len(str) THEN Len(str)
    ELSE IF str[k + 1] # cTilde THEN Reject
    ELSE GObjectNext(str, GValue(str, k))

GObject(str, i) ==
    IF i >= Len(str) THEN Len(str)
    ELSE IF str[i + 1] = cRParen THEN i + 1
    ELSE GEntry(str, Run(str, i, {cTilde}))

\* The text decodes to a Value under the grammar.
WellFormed(text) ==
    \/ text = << >>
    \/ Len(text) >= 2 /\ text[1] = cTilde /\ text[2] = cQuote
    \/ GValue(text, 0) = Len(text)

Malformed(text) == ~WellFormed(text)

\* No time range: the value of a key the store does not hold.  The stored
\* time ranges are numbered from 1.
Absent == 0

\* What the service worker answered to the last message.
NoReply ==
    [action |-> "none", success |-> FALSE, timeRange |-> Absent, history |-> << >>]

\* The extension has just been installed: an empty store, no badge.
InitStore ==
    /\ currentTimeRange = Absent
    /\ timeRangeHistory = << >>
    /\ calls = { }
    /\ badge = FALSE
    /\ reply = NoReply
    /\ started = 0

\* No apply-time message yet.
NoApplied == [start |-> Undef, end |-> Undef, captured |-> FALSE]

\* What the listener of the content script answered to the last message:
\* sent tells that sendResponse was called, hung that the listener never
\* came back; capturedAt is Date.now() of the listener.
NoResponse ==
    [sent |-> FALSE, hung |-> FALSE, action |-> "none", classified |-> "none",
     service |-> "none", success |-> FALSE, range |-> NoRange, error |-> "none",
     capturedAt |-> Undef]

\* No capture and no apply has begun: kind tells who began the last one, pc
\* whether it still waits to send its apply-time message, tr the stored time
\* range that it read.
NoFlow == [kind |-> "none", pc |-> "done", tr |-> Absent]

InitFlow ==
    /\ ranges = << >>
    /\ flow = NoFlow
    /\ navigated = FALSE

InitPageIdle ==
    /\ hostname = << >>
    /\ pathname = << >>
    /\ search = << >>
    /\ hash = << >>
    /\ now = N(0)
    /\ response = NoResponse
    /\ script = "none"
    /\ zone = 0
    /\ applied = NoApplied
    /\ previousSearch = << >>
    /\ previousHash = << >>
    /\ applies = 0
    /\ InitFlow
    /\ InitStore

InitCodec ==
    /\ \/ cin \in CodecValues /\ ctext = << >>
       \/ cin = Undef /\ ctext \in RawTexts
    /\ cout = Out("none", "none", NotCalled, Undef)
    /\ InitPageIdle

\* text = JSURL.stringify(v)
CStringify ==
    /\ cout.op = "none"
    /\ cin # Undef
    /\ ctext' = JsurlStringify(cin)
    /\ cout' = Out("stringify", "none", NotCalled, Undef)
    /\ UNCHANGED <<cin, pageVars>>

\* The text is cut after its first k characters.
CTruncate(k) ==
    /\ cout.op = "stringify"
    /\ k < Len(ctext)
    /\ ctext' = SubSeq(ctext, 1, k)
    /\ cout' = Out("truncate", "stringify", NotCalled, Undef)
    /\ UNCHANGED <<cin, pageVars>>

\* JSURL.parse(text)
CParse ==
    /\ cout.op \in {"none", "stringify", "truncate"}
    /\ cout' = Out("parse", cout.op, JsurlParse(Str(ctext)), Undef)
    /\ UNCHANGED <<cin, ctext, pageVars>>

\* JSURL.tryParse(text, d)
CTryParse(d) ==
    /\ cout.op \in {"none", "stringify", "truncate"}
    /\ cout' = Out("tryParse", cout.op, JsurlTryParse(Str(ctext), d), d)
    /\ UNCHANGED <<cin, ctext, pageVars>>

\* JSURL.parse(v) with an argument that is not a text
CParseValue ==
    /\ cout.op = "none"
    /\ cin # Undef
    /\ cout' = Out("parseValue", cout.op, JsurlParse(cin), Undef)
    /\ UNCHANGED <<cin, ctext, pageVars>>

\* JSURL.tryParse(v, d) with an argument that is not a text
CTryParseValue(d) ==
    /\ cout.op = "none"
    /\ cin # Undef
    /\ cout' = Out("tryParseValue", cout.op, JsurlTryParse(cin, d), d)
    /\ UNCHANGED <<cin, ctext, pageVars>>

NextCodec ==
    \/ CStringify
    \/ \E k \in 0..(2 + 12 * MaxItems) : CTruncate(k)
    \/ CParse
    \/ \E d \in Defaults : CTryParse(d)
    \/ CParseValue
    \/ \E d \in Defaults : CTryParseValue(d)

SpecCodec == InitCodec /\ [][NextCodec]_vars

(***************************************************************************)
(* The content script on a page: the popup or the service worker sends a   *)
(* message, the listener answers.  The page is at one address; the clock   *)
(* advances between messages.                                              *)
(***************************************************************************)

MaxTicks == 1      \* how often the clock advances

\* The clock at the start, 2026-01-01T00:00:00Z, and its step.
Now0 == [hi |-> 1767225, lo |-> 600000]
TickMs == N(1000)

Zones == {0, 540}

hostConsole == T(<<"a", "p", "-", "n", "o", "r", "t", "h", "e", "a", "s", "t", "-", "1", ".",
        "c", "o", "n", "s", "o", "l", "e", ".", "a", "w", "s", ".", "a", "m", "a", "z", "o",
        "n", ".", "c", "o", "m">>)
hostOther == T(<<"e", "x", "a", "m", "p", "l", "e", ".", "c", "o", "m">>)
pathCloudWatch == T(<<"/", "c", "l", "o", "u", "d", "w", "a", "t", "c", "h", "/", "h", "o",
        "m", "e">>)
pathXRay == T(<<"/", "x", "r", "a", "y", "/", "h", "o", "m", "e">>)
pathEc2 == T(<<"/", "e", "c", "2", "/", "h", "o", "m", "e">>)
searchRegion == T(<<"?", "r", "e", "g", "i", "o", "n", "=", "a", "p", "-", "n", "o", "r",
        "t", "h", "e", "a", "s", "t", "-", "1">>)

\* What the console writes for ( ) and ' in a Format A value: the percent
\* escape with $ for %.
ConsoleDollar(ch) ==
    IF ch = cLParen THEN T(<<"$", "2", "8">>)
    ELSE IF ch = cRParen THEN T(<<"$", "2", "9">>)
    ELSE IF ch = cQuote THEN T(<<"$", "2", "7">>)
    ELSE << ch >>

ConsoleEncode(text) == Concat([i \in 1..Len(text) |-> ConsoleDollar(text[i])])

\* Pieces of fragments: the markers the classifier looks for and what may
\* stand around them.
Fragments ==
    { << >>,
      T(<<"m", "e", "t", "r", "i", "c", "s", "V", "2", ":", "g", "r", "a", "p", "h", "=",
              "~", "(", "s", "t", "a", "r", "t", "~", "'", "-", "P", "T", "1", "H", "~", "e",
              "n", "d", "~", "'", "x", ")">>),
      T(<<"l", "o", "g", "s", "V", "2", ":", "l", "o", "g", "-", "g", "r", "o", "u", "p",
              "s">>),
      T(<<"l", "o", "g", "s", "V", "2", ":", "x">>),
      T(<<"/", "l", "o", "g", "s", "-", "i", "n", "s", "i", "g", "h", "t", "s">>),
      T(<<"l", "o", "g", "s", "V", "2", ":", "l", "o", "g", "-", "g", "r", "o", "u", "p",
              "s", "/", "l", "o", "g", "s", "-", "i", "n", "s", "i", "g", "h", "t", "s">>),
      T(<<"?", "q", "u", "e", "r", "y", "D", "e", "t", "a", "i", "l", "=", "~", "$", "2",
              "8", "e", "n", "d", "~", "0", "~", "s", "t", "a", "r", "t", "~", "-", "6", "0",
              "$", "2", "9">>),
      T(<<"$", "3", "F", "q", "u", "e", "r", "y", "D", "e", "t", "a", "i", "l", "$", "3",
              "D", "~", "(", "e", "n", "d", "~", "0", "~", "s", "t", "a", "r", "t", "~", "-",
              "6", "0", ")">>),
      T(<<"/", "l", "o", "g", "-", "e", "v", "e", "n", "t", "s", "/", "s">>),
      T(<<"$", "3", "F", "s", "t", "a", "r", "t", "$", "3", "D", "-", "6", "0", "0", "0",
              "0">>),
      T(<<"?", "s", "t", "a", "r", "t", "=", "5">>),
      T(<<"h", "o", "m", "e", ":">>),
      T(<<"d", "a", "s", "h", "b", "o", "a", "r", "d", "s", "/", "X">>),
      T(<<"?", "~", "(", "t", "i", "m", "e", "R", "a", "n", "g", "e", "~", "5", ")">>),
      T(<<":", "?", "x">>) }

ClassifierHashes == { << cHashCh >> \o a \o b : a \in Fragments, b \in Fragments }

Address(host, path, query, h) ==
    [hostname |-> host, pathname |-> path, search |-> query, hash |-> h]

ClassifierAddresses ==
    { Address(hostConsole, path, searchRegion, h) :
          path \in {pathCloudWatch, pathXRay, pathEc2}, h \in ClassifierHashes }
        \cup { Address(hostOther, pathEc2, searchRegion, h) : h \in ClassifierHashes }

\* Logs Insights: the queryDetail object the console writes, in Format A and
\* in Format B.
InsightsStarts ==
    { Num(N(0 - 3600)), Num(N(0)), Num([hi |-> 1700, lo |-> 0]),
      Num([hi |-> 999999, lo |-> 999999]), Num(N1e12),
      Num([hi |-> 1700000, lo |-> 0]) }

InsightsEnds ==
    { Num(N(0 - 60)), Num(N(0)), Num([hi |-> 1700, lo |-> 3600]), Num(N1e12),
      Num([hi |-> 1700003, lo |-> 600000]) }

TimeTypes == { Undef, Str(tRelative), Str(T(<<"A", "B", "S", "O", "L", "U", "T", "E">>)) }

QueryDetail(start, end, timeType) ==
    Stringify(Obj(<< [k |-> kEnd, v |-> end], [k |-> kStart, v |-> start],
                     [k |-> kTimeType, v |-> timeType] >>))

InsightsHashes ==
    { T(<<"#", "l", "o", "g", "s", "V", "2", ":", "l", "o", "g", "s", "-", "i", "n", "s",
            "i", "g", "h", "t", "s", "?", "q", "u", "e", "r", "y", "D", "e", "t", "a", "i",
            "l", "=">>) \o ConsoleEncode(QueryDetail(s, e, tt)) :
          s \in InsightsStarts, e \in InsightsEnds, tt \in TimeTypes }
    \cup
    { T(<<"#", "l", "o", "g", "s", "V", "2", ":", "l", "o", "g", "s", "-", "i", "n", "s",
            "i", "g", "h", "t", "s", "$", "3", "F", "q", "u", "e", "r", "y", "D", "e", "t",
            "a", "i", "l", "$", "3", "D">>) \o QueryDetail(s, e, tt) :
          s \in InsightsStarts, e \in InsightsEnds, tt \in TimeTypes }

\* Log Events: start and an optional end, the delimiters escaped or plain.
LogsStarts == { Num(N(0 - 1800000)), Num(N(0)), Num([hi |-> 1700000, lo |-> 0]) }

LogsEnds ==
    { Undef, Num(N(0 - 60000)), Num(N(0)), Num([hi |-> 1700003, lo |-> 600000]) }

Delimiters ==
    { [q |-> tCode3F, eq |-> tCode3D, amp |-> tCode26],
      [q |-> tQuestion, eq |-> tEquals, amp |-> tAmpersand] }

LogsParams(d, start, end) ==
    d.q \o kStart \o d.eq \o NumToText(start.n)
        \o (IF end = Undef THEN << >> ELSE d.amp \o kEnd \o d.eq \o NumToText(end.n))

LogsHashes ==
    { T(<<"#", "l", "o", "g", "s", "V", "2", ":", "l", "o", "g", "-", "g", "r", "o", "u",
            "p", "s", "/", "l", "o", "g", "-", "g", "r", "o", "u", "p", "/", "G", "/", "l",
            "o", "g", "-", "e", "v", "e", "n", "t", "s", "/", "S">>) \o LogsParams(d, s,
            e) :
          d \in Delimiters, s \in LogsStarts, e \in LogsEnds }

GenericHashes ==
    { T(<<"#", "h", "o", "m", "e", ":", "?", "~", "(", "t", "i", "m", "e", "R", "a", "n",
            "g", "e", "~", "1", "8", "1", "4", "4", "0", "0", "0", "0", "0", ")">>),
      T(<<"#", "h", "o", "m", "e", ":", "d", "a", "s", "h", "b", "o", "a", "r", "d", "s",
              "/", "A", "p", "p", "l", "i", "c", "a", "t", "i", "o", "n", "E", "L", "B", "?",
              "~", "(", "t", "i", "m", "e", "R", "a", "n", "g", "e", "~", "4", "3", "2", "0",
              "0", "0", "0", "0">>),
      T(<<"#", "h", "o", "m", "e", ":", "?", "~", "(", "t", "i", "m", "e", "R", "a", "n",
              "g", "e", "~", "(", "~", "1", "7", "7", "1", "8", "5", "8", "8", "0", "0", "0",
              "0", "0", "~", "1", "7", "7", "1", "9", "8", "8", "4", "0", "0", "0", "0", "0",
              ")", ")">>),
      T(<<"#", "h", "o", "m", "e", ":", "?", "~", "(", "t", "i", "m", "e", "R", "a", "n",
              "g", "e", "~", "(", "s", "t", "a", "r", "t", "~", "'", "2", "0", "2", "4", "-",
              "0", "1", "-", "0", "1", "T", "0", "0", ":", "0", "0", ":", "0", "0", "Z", "~",
              "e", "n", "d", "~", "'", "2", "0", "2", "4", "-", "0", "1", "-", "0", "2", "T",
              "0", "0", ":", "0", "0", ":", "0", "0", ".", "0", "0", "0", ")", ")">>),
      T(<<"#", "h", "o", "m", "e", ":", "?", "~", "(", "t", "i", "m", "e", "R", "a", "n",
              "g", "e", "~", "'", "P", "T", "1", "H", ")">>),
      T(<<"#", "h", "o", "m", "e", ":", "?", "~", "(", "x", "~", "1", ")">>),
      T(<<"#", "h", "o", "m", "e", ":", "?", "x", ":", "?", "~", "(", "t", "i", "m", "e",
              "R", "a", "n", "g", "e", "~", "5", ")">>) }

MetricsHashes ==
    { T(<<"#", "m", "e", "t", "r", "i", "c", "s", "V", "2", ":", "g", "r", "a", "p", "h",
            "=", "~", "(", "s", "t", "a", "r", "t", "~", "'", "-", "P", "T", "3", "H", "~",
            "e", "n", "d", "~", "'", "n", "o", "w", "~", "r", "e", "g", "i", "o", "n", "~",
            "'", "a", "p", "-", "n", "o", "r", "t", "h", "e", "a", "s", "t", "-", "1",
            ")">>),
      T(<<"#", "m", "e", "t", "r", "i", "c", "s", "V", "2", ":", "g", "r", "a", "p", "h",
              "=", "~", "(", "s", "t", "a", "r", "t", "~", "'", "2", "0", "2", "4", "-", "0",
              "1", "-", "0", "1", "T", "0", "0", ":", "0", "0", ":", "0", "0", "Z", "~", "e",
              "n", "d", "~", "'", "2", "0", "2", "4", "-", "0", "1", "-", "0", "2", "T", "0",
              "0", ":", "0", "0", ":", "0", "0", "Z", ")">>),
      T(<<"#", "m", "e", "t", "r", "i", "c", "s", "V", "2", ":", "g", "r", "a", "p", "h",
              "=", "~", "(", "s", "t", "a", "r", "t", "~", "1", "7", "0", "4", "0", "6", "7",
              "2", "0", "0", "0", "0", "0", "~", "e", "n", "d", "~", "1", "7", "0", "4", "1",
              "5", "3", "6", "0", "0", "0", "0", "0", ")">>),
      T(<<"#", "m", "e", "t", "r", "i", "c", "s", "V", "2", ":", "g", "r", "a", "p", "h",
              "=", "~", "(", "p", "e", "r", "i", "o", "d", "~", "'", "P", "T", "5", "M",
              ")">>),
      T(<<"#", "m", "e", "t", "r", "i", "c", "s", "V", "2", ":", "g", "r", "a", "p", "h",
              "=", "~", "(", "p", "e", "r", "i", "o", "d", "~", "3", "0", "0", ")">>),
      T(<<"#", "m", "e", "t", "r", "i", "c", "s", "V", "2", ":", "g", "r", "a", "p", "h",
              "=", "~", "(", "v", "i", "e", "w", "~", "'", "t", "i", "m", "e", "S", "e", "r",
              "i", "e", "s", ")">>) }

XRayAddresses ==
    { Address(hostConsole, pathXRay, T(<<"?", "r", "e", "g", "i", "o", "n", "=", "a", "p",
            "-", "n", "o", "r", "t", "h", "e", "a", "s", "t", "-", "1", "&", "t", "i", "m",
            "e", "R", "a", "n", "g", "e", "=", "P", "T", "1", "H">>), << >>),
      Address(hostConsole, pathXRay,
              T(<<"?", "t", "i", "m", "e", "R", "a", "n", "g", "e", "=", "2", "0", "2", "4",
                      "-", "0", "1", "-", "0", "1", "T", "0", "0", ":", "0", "0", ":", "0",
                      "0", "Z", "~", "2", "0", "2", "4", "-", "0", "1", "-", "0", "2", "T",
                      "0", "0", ":", "0", "0", ":", "0", "0", "Z">>), << >>),
      Address(hostConsole, pathXRay, searchRegion, T(<<"#", "/", "t", "r", "a", "c", "e",
              "s", "?", "t", "i", "m", "e", "R", "a", "n", "g", "e", "=", "P", "T", "6", "H",
              "&", "x", "=", "1">>)),
      Address(hostConsole, pathXRay, T(<<"?", "t", "i", "m", "e", "R", "a", "n", "g", "e",
              "=", "P", "T">>), << >>) }

\* Metrics: the graph objects of the pages, start, end and period each absent
\* or of one of the forms the console writes, and the fragment of each.
MetricsStarts ==
    { Undef, Str(T(<<"-", "P", "T", "3", "H">>)), Str(T(<<"2", "0", "2", "4", "-", "0", "1",
            "-", "0", "1", "T", "0", "0", ":", "0", "0", ":", "0", "0", "Z">>)),
      Num([hi |-> 1704067, lo |-> 200000]), Num(N(0)) }

MetricsEnds ==
    { Undef, Str(T(<<"2", "0", "2", "4", "-", "0", "1", "-", "0", "2", "T", "0", "0", ":",
            "0", "0", ":", "0", "0", "Z">>)), Num([hi |-> 1704153, lo |-> 600000]) }

MetricsPeriods == { Undef, Str(T(<<"P", "T", "5", "M">>)) }

Field(key, v) == IF v = Undef THEN << >> ELSE << [k |-> key, v |-> v] >>

GraphObject(start, end, period) ==
    Obj(<< [k |-> T(<<"v", "i", "e", "w">>), v |-> Str(T(<<"t", "i", "m", "e", "S", "e", "r",
            "i", "e", "s">>))] >> \o Field(kStart, start)
            \o Field(kEnd, end) \o Field(kPeriod, period))

MetricsCases ==
    { [start |-> s, end |-> e, period |-> p,
       hashes |-> { T(<<"#", "m", "e", "t", "r", "i", "c", "s", "V", "2", ":", "g", "r", "a",
               "p", "h", "=">>) \o Stringify(GraphObject(s, e, p)) }] :
          s \in MetricsStarts, e \in MetricsEnds, p \in MetricsPeriods }

\* Generic hash state: the timeRange fields of the pages, by shape, and the
\* fragment of each.
StartEnd(start, end) ==
    Obj(Field(kStart, start) \o Field(kEnd, end))

TimeRanges ==
    { Undef, Null, Bool(TRUE), Str(T(<<"P", "T", "1", "H">>)), Num(N(0)), Num(N(43200000)),
      Arr(<< Num([hi |-> 1771858, lo |-> 800000]) >>),
      Arr(<< Num([hi |-> 1771858, lo |-> 800000]), Num([hi |-> 1771988, lo |-> 400000]) >>),
      Arr(<< Num(N(0)), Num([hi |-> 1771988, lo |-> 400000]) >>),
      Arr(<< Num(N(1)), Num(N(2)), Num(N(3)) >>),
      StartEnd(Str(T(<<"2", "0", "2", "4", "-", "0", "1", "-", "0", "1", "T", "0", "0", ":",
              "0", "0", ":", "0", "0", "Z">>)), Str(T(<<"2", "0", "2", "4", "-", "0", "1",
              "-", "0", "2", "T", "0", "0", ":", "0", "0", ":", "0", "0", "Z">>))),
      StartEnd(Num([hi |-> 1704067, lo |-> 200000]), Num([hi |-> 1704153, lo |-> 600000])),
      StartEnd(Num(N(0)), Num([hi |-> 1704153, lo |-> 600000])),
      StartEnd(Num([hi |-> 1704067, lo |-> 200000]), Undef),
      StartEnd(Undef, Undef) }

StateObject(tr) ==
    Obj(<< [k |-> T(<<"x">>), v |-> Num(N(1))] >> \o Field(kTimeRange, tr))

GenericCases ==
    { [timeRange |-> tr, hashes |-> { T(<<"#", "h", "o", "m", "e", ":",
            "?">>) \o Stringify(StateObject(tr)) }] :
          tr \in TimeRanges }

ParserAddresses ==
    { Address(hostConsole, pathCloudWatch, searchRegion, h) :
          h \in InsightsHashes \cup LogsHashes \cup GenericHashes \cup MetricsHashes
                   \cup UNION { c.hashes : c \in MetricsCases \cup GenericCases } }
        \cup XRayAddresses

Addresses == ClassifierAddresses \cup ParserAddresses

\* The page is at one of the addresses A and runs one of the scripts S.
InitAt(A, S) ==
    /\ \E a \in A :
          /\ hostname = a.hostname
          /\ pathname = a.pathname
          /\ search = a.search
          /\ hash = a.hash
          /\ previousSearch = a.search
          /\ previousHash = a.hash
    /\ now = Now0
    /\ zone \in Zones
    /\ response = NoResponse
    /\ script \in S
    /\ applied = NoApplied
    /\ applies = 0
    /\ InitFlow
    /\ InitStore
    /\ cin = Undef
    /\ ctext = << >>
    /\ cout = Out("none", "none", NotCalled, Undef)

\* The page runs the bundled content script.
InitPage == InitAt(Addresses, {"bundle"})

\* The page runs src/content/content.js.
InitContent == InitAt(Addresses, {"content"})

\* The parser the capture-time case picks for the service; null when the
\* switch has no case for it.
ParserAt(service, q, h, t, z) ==
    IF service = "cloudwatch-metrics" THEN parseCloudWatchMetrics(h, t, z)
    ELSE IF service = "cloudwatch-logs-insights"
    THEN (IF script = "content" THEN contentParseCloudWatchLogsInsights(h, t)
          ELSE parseCloudWatchLogsInsights(h, t))
    ELSE IF service = "cloudwatch-logs" /\ script # "content"
    THEN parseCloudWatchLogs(h, t)
    ELSE IF service = "cloudwatch-generic"
    THEN (IF script = "content" THEN contentParseCloudWatchGeneric(h, t, z)
          ELSE parseCloudWatchGeneric(h, t, z))
    ELSE IF service = "xray" THEN parseXRay(q, h, t, z)
    ELSE NoRange

ParserResult(service) == ParserAt(service, search, hash, now, zone)

\* The answer of the capture-time case: service is the local variable of the
\* listener, carried by the response only when the capture failed.
CaptureAnswer(service, timeRange) ==
    IF timeRange.kind = "hangs"
    THEN [NoResponse EXCEPT !.hung = TRUE, !.action = "capture-time",
                            !.classified = service]
    ELSE IF timeRange.kind = "range"
    THEN [sent |-> TRUE, hung |-> FALSE, action |-> "capture-time",
          classified |-> service, service |-> "none", success |-> TRUE,
          range |-> timeRange, error |-> "none", capturedAt |-> Num(now)]
    ELSE [sent |-> TRUE, hung |-> FALSE, action |-> "capture-time",
          classified |-> service, service |-> service, success |-> FALSE,
          range |-> NoRange,
          error |-> IF service \in {"unknown", "not-aws"} THEN "unsupported"
                    ELSE "extract",
          capturedAt |-> Undef]

\* case "detect-service"
DetectService ==
    /\ script # "none"
    /\ response' = [NoResponse EXCEPT !.sent = TRUE, !.action = "detect-service",
                                      !.classified = Service, !.service = Service]
    /\ UNCHANGED <<codecVars, historyVars, storeVars, hostname, pathname, search, hash,
                   now, script, zone>>

\* case "capture-time"
CaptureTime ==
    /\ script # "none"
    /\ response' = CaptureAnswer(Service, ParserResult(Service))
    /\ UNCHANGED <<codecVars, historyVars, storeVars, hostname, pathname, search, hash,
                   now, script, zone>>

\* default: a message with an action the listener does not know
UnknownAction ==
    /\ script # "none"
    /\ response' = [NoResponse EXCEPT !.sent = TRUE, !.action = "unknown",
                                      !.error = "unknown-action"]
    /\ UNCHANGED <<codecVars, historyVars, storeVars, hostname, pathname, search, hash,
                   now, script, zone>>

LastNow == NAdd(Now0, N(MaxTicks * 1000))

\* Time passes.
Tick ==
    /\ script # "none"
    /\ NLess(now, LastNow)
    /\ now' = NAdd(now, TickMs)
    /\ UNCHANGED <<codecVars, historyVars, storeVars, hostname, pathname, search, hash,
                   response, script, zone>>

\* The apply-time switch with a default that treats every other page as an
\* X-Ray page.
InjectorAtDefaultXRay(service, q, h, tr) ==
    IF service = "cloudwatch-metrics"
    THEN [kind |-> injectCloudWatchMetrics(h, tr).kind, search |-> q,
          hash |-> injectCloudWatchMetrics(h, tr).hash]
    ELSE IF service = "cloudwatch-logs-insights"
    THEN [kind |-> injectCloudWatchLogsInsights(h, tr).kind, search |-> q,
          hash |-> injectCloudWatchLogsInsights(h, tr).hash]
    ELSE IF service = "cloudwatch-logs"
    THEN [kind |-> injectCloudWatchLogs(h, tr).kind, search |-> q,
          hash |-> injectCloudWatchLogs(h, tr).hash]
    ELSE IF service = "cloudwatch-generic"
    THEN [kind |-> injectCloudWatchGeneric(h, tr).kind, search |-> q,
          hash |-> injectCloudWatchGeneric(h, tr).hash]
    ELSE injectXRay(q, h, tr)

\* The answer of the injector the apply-time case picks for the service, for
\* the query q and the hash h; false when the switch has no case for it.
HashInjected(q, r) == [kind |-> r.kind, search |-> q, hash |-> r.hash]

InjectorAt(service, q, h, tr) ==
    IF service = "cloudwatch-metrics"
    THEN HashInjected(q, IF script = "content" THEN contentInjectCloudWatchMetrics(h, tr)
                         ELSE injectCloudWatchMetrics(h, tr))
    ELSE IF service = "cloudwatch-logs-insights"
    THEN HashInjected(q, IF script = "content"
                         THEN contentInjectCloudWatchLogsInsights(h, tr)
                         ELSE injectCloudWatchLogsInsights(h, tr))
    ELSE IF service = "cloudwatch-logs" /\ script # "content"
    THEN HashInjected(q, injectCloudWatchLogs(h, tr))
    ELSE IF service = "cloudwatch-generic"
    THEN HashInjected(q, IF script = "content" THEN contentInjectCloudWatchGeneric(h, tr)
                         ELSE injectCloudWatchGeneric(h, tr))
    ELSE IF service = "xray"
    THEN (IF script = "content" THEN contentInjectXRay(q, h, tr) ELSE injectXRay(q, h, tr))
    ELSE HashInjected(q, NotInjected(h))

\* The answer of the apply-time case.
ApplyAnswer(svc, kind) ==
    IF kind = "hangs"
    THEN [NoResponse EXCEPT !.hung = TRUE, !.action = "apply-time", !.classified = svc]
    ELSE IF kind = "true"
    THEN [NoResponse EXCEPT !.sent = TRUE, !.action = "apply-time", !.classified = svc,
                            !.success = TRUE]
    ELSE [NoResponse EXCEPT !.sent = TRUE, !.action = "apply-time", !.classified = svc,
                            !.service = svc,
                            !.error = IF svc \in {"unknown", "not-aws"} THEN "unsupported"
                                      ELSE "apply"]

MaxApplies == 2    \* how many apply-time messages a page receives

\* The time ranges of the apply-time messages: 2024-01-01T00:00:00.000Z to
\* 2024-01-02T00:00:00.123Z, and the epoch to 2024-01-02T00:00:00.000Z.
MessageRanges ==
    { [start |-> Num([hi |-> 1704067, lo |-> 200000]),
       end |-> Num([hi |-> 1704153, lo |-> 600123]), captured |-> FALSE],
      [start |-> Num(N(0)),
       end |-> Num([hi |-> 1704153, lo |-> 600000]), captured |-> FALSE] }

\* The popup applies what the last capture-time gave it.
CapturedRanges ==
    IF /\ response.action = "capture-time"
       /\ response.success
       /\ response.range.start.t = "number"
       /\ response.range.end.t = "number"
    THEN { [start |-> response.range.start, end |-> response.range.end,
            captured |-> TRUE] }
    ELSE { }

Applied(tr, r) ==
    /\ search' = r.search
    /\ hash' = r.hash
    /\ response' = ApplyAnswer(Service, r.kind)
    /\ applied' = tr
    /\ previousSearch' = search
    /\ previousHash' = hash
    /\ applies' = applies + 1

\* case "apply-time"
ApplyTime ==
    /\ script # "none"
    /\ applies < MaxApplies
    /\ \E tr \in MessageRanges \cup CapturedRanges :
          Applied(tr, InjectorAt(Service, search, hash, tr))
    /\ UNCHANGED <<codecVars, storeVars, flowVars, hostname, pathname, now, script, zone>>

NextPage ==
    \/ DetectService
    \/ CaptureTime
    \/ UnknownAction
    \/ Tick

SpecPage == InitPage /\ [][NextPage]_vars

SpecContent == InitContent /\ [][NextPage]_vars

\* The pages that receive apply-time messages: for each scheme, addresses
\* that hold a time range in each of its forms, with other content around
\* it, addresses that hold none, and addresses no scheme covers.
ApplyHashes ==
    { T(<<"#", "m", "e", "t", "r", "i", "c", "s", "V", "2", ":", "g", "r", "a", "p", "h",
            "=", "~", "(", "s", "t", "a", "r", "t", "~", "'", "-", "P", "T", "3", "H", "~",
            "e", "n", "d", "~", "'", "P", "0", "D", "~", "s", "t", "a", "t", "~", "'", "S",
            "u", "m", ")", ";", "q", "u", "e", "r", "y", "=", "x">>),
      T(<<"#", "m", "e", "t", "r", "i", "c", "s", "V", "2", ":", "g", "r", "a", "p", "h",
              "=", "~", "(", "t", "i", "t", "l", "e", "~", "'", "a", "*", "2", "0", "b", "~",
              "s", "t", "a", "r", "t", "~", "'", "-", "P", "T", "3", "H", "~", "e", "n", "d",
              "~", "'", "P", "0", "D", ")">>),
      T(<<"#", "m", "e", "t", "r", "i", "c", "s", "V", "2", ":", "q", "u", "e", "r", "y",
              "=", "x">>),
      T(<<"#", "m", "e", "t", "r", "i", "c", "s", "V", "2", ":", "g", "r", "a", "p", "h",
              "=", "~", "5">>),
      T(<<"#", "l", "o", "g", "s", "V", "2", ":", "l", "o", "g", "s", "-", "i", "n", "s",
              "i", "g", "h", "t", "s", "?", "q", "u", "e", "r", "y", "D", "e", "t", "a", "i",
              "l", "=", "~", "$", "2", "8", "e", "n", "d", "~", "0", "~", "s", "t", "a", "r",
              "t", "~", "-", "3", "6", "0", "0", "~", "t", "i", "m", "e", "T", "y", "p", "e",
              "~", "$", "2", "7", "R", "E", "L", "A", "T", "I", "V", "E", "~", "t", "z", "~",
              "$", "2", "7", "U", "T", "C", "$", "2", "9">>),
      T(<<"#", "l", "o", "g", "s", "V", "2", ":", "l", "o", "g", "s", "-", "i", "n", "s",
              "i", "g", "h", "t", "s", "$", "3", "F", "q", "u", "e", "r", "y", "D", "e", "t",
              "a", "i", "l", "$", "3", "D", "~", "(", "e", "n", "d", "~", "0", "~", "s", "t",
              "a", "r", "t", "~", "-", "3", "6", "0", "0", "~", "t", "i", "m", "e", "T", "y",
              "p", "e", "~", "'", "R", "E", "L", "A", "T", "I", "V", "E", "~", "t", "z", "~",
              "'", "U", "T", "C", ")">>),
      T(<<"#", "l", "o", "g", "s", "V", "2", ":", "l", "o", "g", "s", "-", "i", "n", "s",
              "i", "g", "h", "t", "s">>),
      T(<<"#", "l", "o", "g", "s", "V", "2", ":", "l", "o", "g", "s", "-", "i", "n", "s",
              "i", "g", "h", "t", "s", "?", "q", "u", "e", "r", "y", "D", "e", "t", "a", "i",
              "l", "=", "~", "$", "2", "8", "e", "n", "d", "~", "0", "$", "Z", "Z">>),
      T(<<"#", "l", "o", "g", "s", "V", "2", ":", "l", "o", "g", "-", "g", "r", "o", "u",
              "p", "s", "/", "l", "o", "g", "-", "g", "r", "o", "u", "p", "/", "g", "/", "l",
              "o", "g", "-", "e", "v", "e", "n", "t", "s", "/", "s", "$", "3", "F", "s", "t",
              "a", "r", "t", "$", "3", "D", "-", "1", "8", "0", "0", "0", "0", "0">>),
      T(<<"#", "l", "o", "g", "s", "V", "2", ":", "l", "o", "g", "-", "g", "r", "o", "u",
              "p", "s", "/", "l", "o", "g", "-", "g", "r", "o", "u", "p", "/", "g", "/", "l",
              "o", "g", "-", "e", "v", "e", "n", "t", "s", "/", "s", "$", "3", "F", "s", "t",
              "a", "r", "t", "$", "3", "D", "1", "7", "0", "0", "0", "0", "0", "0", "0", "0",
              "0", "0", "0", "$", "2", "6", "e", "n", "d", "$", "3", "D", "1", "7", "0", "0",
              "0", "0", "0", "3", "6", "0", "0", "0", "0", "$", "2", "6", "x", "$", "3", "D",
              "1">>),
      T(<<"#", "l", "o", "g", "s", "V", "2", ":", "l", "o", "g", "-", "g", "r", "o", "u",
              "p", "s", "/", "l", "o", "g", "-", "g", "r", "o", "u", "p", "/", "g", "/", "l",
              "o", "g", "-", "e", "v", "e", "n", "t", "s", "/", "s", "?", "s", "t", "a", "r",
              "t", "=", "-", "6", "0", "0", "0", "0", "&", "x", "=", "1">>),
      T(<<"#", "l", "o", "g", "s", "V", "2", ":", "l", "o", "g", "-", "g", "r", "o", "u",
              "p", "s", "/", "l", "o", "g", "-", "g", "r", "o", "u", "p", "/", "g", "/", "l",
              "o", "g", "-", "e", "v", "e", "n", "t", "s", "/", "s", "$", "3", "F", "s", "t",
              "a", "r", "t", "$", "3", "D", "a", "b", "c">>),
      T(<<"#", "h", "o", "m", "e", ":", "?", "~", "(", "t", "i", "m", "e", "R", "a", "n",
              "g", "e", "~", "4", "3", "2", "0", "0", "0", "0", "0", "~", "x", "~", "1",
              ")">>),
      T(<<"#", "h", "o", "m", "e", ":", "d", "a", "s", "h", "b", "o", "a", "r", "d", "s",
              "/", "X", "?", "~", "(", "x", "~", "1", "~", "t", "i", "m", "e", "R", "a", "n",
              "g", "e", "~", "(", "~", "1", "7", "0", "0", "0", "0", "0", "0", "0", "0", "0",
              "0", "0", "~", "1", "7", "0", "0", "0", "0", "0", "3", "6", "0", "0", "0", "0",
              ")", ")">>),
      T(<<"#", "h", "o", "m", "e", ":", "?", "~", "(", "t", "i", "m", "e", "R", "a", "n",
              "g", "e", "~", "1", "8", "1", "4", "4", "0", "0">>),
      T(<<"#", "h", "o", "m", "e", ":", "?", "~", "(", "(">>),
      T(<<"#", "h", "o", "m", "e", ":">>),
      T(<<"#", "a", "l", "a", "r", "m", "s", "V", "2", ":", "a", "l", "a", "r", "m", "/",
              "A">>) }

ApplyAddresses ==
    { Address(hostConsole, pathCloudWatch, searchRegion, h) : h \in ApplyHashes }
        \cup
    { Address(hostConsole, pathXRay, T(<<"?", "r", "e", "g", "i", "o", "n", "=", "a", "p",
            "-", "n", "o", "r", "t", "h", "e", "a", "s", "t", "-", "1", "&", "t", "i", "m",
            "e", "R", "a", "n", "g", "e", "=", "P", "T", "1", "H", "&", "f", "i", "l", "t",
            "e", "r", "=", "a", "~", "b">>), << >>),
      Address(hostConsole, pathXRay, searchRegion, T(<<"#", "/", "t", "r", "a", "c", "e",
              "s", "?", "t", "i", "m", "e", "R", "a", "n", "g", "e", "=", "P", "T", "6", "H",
              "&", "x", "=", "1">>)),
      Address(hostConsole, pathXRay, searchRegion, T(<<"#", "/", "t", "r", "a", "c", "e",
              "s">>)),
      Address(hostConsole, pathXRay, searchRegion, << >>),
      Address(hostConsole, pathEc2, searchRegion, T(<<"#", "I", "n", "s", "t", "a", "n", "c",
              "e", "s", ":">>)),
      Address(hostOther, pathEc2, << >>, << >>) }

\* The page runs either copy of the content script.
InitApply == InitAt(ApplyAddresses, {"bundle", "content"})

NextApply ==
    \/ DetectService
    \/ CaptureTime
    \/ ApplyTime
    \/ UnknownAction
    \/ Tick

SpecApply == InitApply /\ [][NextApply]_vars

(***************************************************************************)
(* The service worker: the store of the captured time range and of the     *)
(* earlier ones.  Its functions are asynchronous: a call reads the store,  *)
(* writes it and sets the badge in separate steps, and the steps of        *)
(* several calls interleave.  A time range is stood for by the number      *)
(* of the call that saved it.  An absent timeRangeHistory is read as the   *)
(* empty list and is modelled as one.                                      *)
(***************************************************************************)

MAX_HISTORY == 5

MaxCalls == 2      \* how many calls wait on the storage at one time
\* How many messages the service worker gets: enough for a save onto a full
\* history with a current time range.
MaxStarted == MAX_HISTORY + 2

\* history.slice(0, n)
Slice(history, n) == SubSeq(history, 1, Min(Len(history), n))

\* history.unshift(current) alone
UnshiftUncut(history, current) == << current >> \o history

\* history.unshift(current); if (history.length > MAX_HISTORY) history =
\* history.slice(0, MAX_HISTORY)
Unshift(history, current) ==
    IF Len(history) + 1 > MAX_HISTORY THEN Slice(<< current >> \o history, MAX_HISTORY)
    ELSE << current >> \o history

\* The current time range put behind the history.
PushBehind(history, current) ==
    IF current # Absent THEN Slice(Append(history, current), MAX_HISTORY) ELSE history

\* "Push current to history if it exists"
PushCurrent(history, current) ==
    IF current # Absent THEN Unshift(history, current) ELSE history

\* history with nothing taken out
Unspliced(history, index) == history

\* history after history.splice(index, 1), for a 0-based index
Spliced(history, index) ==
    SubSeq(history, 1, index) \o SubSeq(history, index + 2, Len(history))

\* A call that has read the store and has still to write it: timeRange is
\* the argument of saveTimeRange, index the one of restoreFromHistory, the
\* other two fields are the data it has read; at is the number of the
\* message that started it.
Call(op, timeRange, index) ==
    [op |-> op, timeRange |-> timeRange, index |-> index, pc |-> "set",
     at |-> started + 1,
     currentTimeRange |-> currentTimeRange, timeRangeHistory |-> timeRangeHistory]

\* The calls that wait for the answer of a set, of a remove or of the read
\* at startup.
Answering == {c \in calls : c.pc = "badge"}

\* The place in the line of the answers the storage has still to give.
NextAnswer ==
    IF Answering = { } THEN 1
    ELSE 1 + CHOOSE n \in {c.at : c \in Answering} : \A c \in Answering : c.at <= n

\* A call that has written or emptied the store and has still to set the
\* badge and to answer: of its values it still uses timeRange, which for
\* restoreFromHistory is the entry it took out of the history (restored).
Written(op, timeRange) ==
    [op |-> op, timeRange |-> timeRange, index |-> 0, pc |-> "badge",
     at |-> NextAnswer,
     currentTimeRange |-> Absent, timeRangeHistory |-> << >>]

\* chrome.storage.local serves the requests in the order they were made and
\* answers in the order it served them: of the calls that wait at the same
\* place, the one that came there first goes on first.
IsNext(c) == \A d \in calls : d.pc = c.pc => c.at <= d.at

Replied(action, success, timeRange, history) ==
    [action |-> action, success |-> success, timeRange |-> timeRange,
     history |-> history]

\* updateBadge(hasTimeRange): is the badge shown afterwards
updateBadgeShown(hasTimeRange) == TRUE

updateBadge(hasTimeRange) == hasTimeRange

MayStart == started < MaxStarted /\ Cardinality(calls) < MaxCalls

\* saveTimeRange(timeRange), called for a save-time-range message or for the
\* capture-time command, up to the answer of chrome.storage.local.get
SaveTimeRange ==
    /\ MayStart
    /\ calls' = calls \cup {Call("save", started + 1, 0)}
    /\ started' = started + 1
    /\ UNCHANGED <<currentTimeRange, timeRangeHistory, badge, reply>>

\* saveTimeRange: chrome.storage.local.set, for the call c
SaveWrites(c) ==
    /\ c \in calls
    /\ c.op = "save"
    /\ c.pc = "set"
    /\ IsNext(c)
    /\ currentTimeRange' = c.timeRange
    /\ timeRangeHistory' = PushCurrent(c.timeRangeHistory, c.currentTimeRange)
    /\ calls' = (calls \ {c}) \cup {Written("save", c.timeRange)}
    /\ UNCHANGED <<badge, reply, started>>

SaveSet == \E c \in calls : SaveWrites(c)

\* saveTimeRange: updateBadge(true) and the response
SaveDone ==
    \E c \in calls :
        /\ c.op = "save"
        /\ c.pc = "badge"
        /\ IsNext(c)
        /\ badge' = updateBadge(TRUE)
        /\ reply' = Replied("save-time-range", TRUE, Absent, << >>)
        /\ calls' = calls \ {c}
        /\ UNCHANGED <<currentTimeRange, timeRangeHistory, started>>

\* index < 0 || index >= history.length
InvalidBelowZero(index, history) == index < 0

InvalidIndex(index, history) == index < 0 \/ index >= Len(history)

\* restoreFromHistory(index), up to the answer of chrome.storage.local.get
\* and the test of the index
Restore(index) ==
    /\ MayStart
    /\ started' = started + 1
    /\ IF InvalidIndex(index, timeRangeHistory)
       THEN /\ reply' = Replied("restore-from-history", FALSE, Absent, << >>)
            /\ UNCHANGED calls
       ELSE /\ calls' = calls \cup {Call("restore", Absent, index)}
            /\ UNCHANGED reply
    /\ UNCHANGED <<currentTimeRange, timeRangeHistory, badge>>

RestoreFromHistory == \E index \in -1..Len(timeRangeHistory) : Restore(index)

\* restoreFromHistory: chrome.storage.local.set, for the call c
RestoreWrites(c) ==
    /\ c \in calls
    /\ c.op = "restore"
    /\ c.pc = "set"
    /\ IsNext(c)
    /\ currentTimeRange' = c.timeRangeHistory[c.index + 1]
    /\ timeRangeHistory' =
           PushCurrent(Spliced(c.timeRangeHistory, c.index), c.currentTimeRange)
    /\ calls' = (calls \ {c}) \cup {Written("restore", c.timeRangeHistory[c.index + 1])}
    /\ UNCHANGED <<badge, reply, started>>

RestoreSet == \E c \in calls : RestoreWrites(c)

\* restoreFromHistory: updateBadge(true) and the response
RestoreDone ==
    \E c \in calls :
        /\ c.op = "restore"
        /\ c.pc = "badge"
        /\ IsNext(c)
        /\ badge' = updateBadge(TRUE)
        /\ reply' = Replied("restore-from-history", TRUE, c.timeRange, << >>)
        /\ calls' = calls \ {c}
        /\ UNCHANGED <<currentTimeRange, timeRangeHistory, started>>

\* clearAll(): chrome.storage.local.remove
ClearAll ==
    /\ MayStart
    /\ started' = started + 1
    /\ currentTimeRange' = Absent
    /\ timeRangeHistory' = << >>
    /\ calls' = calls \cup {Written("clear", Absent)}
    /\ UNCHANGED <<badge, reply>>

\* clearAll: updateBadge(false) and the response
ClearDone ==
    \E c \in calls :
        /\ c.op = "clear"
        /\ IsNext(c)
        /\ badge' = updateBadge(FALSE)
        /\ reply' = Replied("clear-all", TRUE, Absent, << >>)
        /\ calls' = calls \ {c}
        /\ UNCHANGED <<currentTimeRange, timeRangeHistory, started>>

\* The service worker is started again after it was idle: it reads the
\* current time range
Startup ==
    /\ MayStart
    /\ calls = { }
    /\ started' = started + 1
    /\ calls' = {Written("startup", currentTimeRange)}
    /\ UNCHANGED <<currentTimeRange, timeRangeHistory, badge, reply>>

\* the callback of the read at startup: updateBadge(!!data.currentTimeRange)
StartupDone ==
    \E c \in calls :
        /\ c.op = "startup"
        /\ IsNext(c)
        /\ badge' = updateBadge(c.timeRange # Absent)
        /\ calls' = calls \ {c}
        /\ UNCHANGED <<currentTimeRange, timeRangeHistory, reply, started>>

\* case "get-current": the answer holds the time range and no success field
GetCurrent ==
    /\ started < MaxStarted
    /\ started' = started + 1
    /\ reply' = Replied("get-current", FALSE, currentTimeRange, << >>)
    /\ UNCHANGED <<currentTimeRange, timeRangeHistory, calls, badge>>

\* case "get-history": the answer holds the history and no success field
GetHistory ==
    /\ started < MaxStarted
    /\ started' = started + 1
    /\ reply' = Replied("get-history", FALSE, Absent, timeRangeHistory)
    /\ UNCHANGED <<currentTimeRange, timeRangeHistory, calls, badge>>

\* default: an error is answered
UnknownMessage ==
    /\ started < MaxStarted
    /\ started' = started + 1
    /\ reply' = Replied("unknown", FALSE, Absent, << >>)
    /\ UNCHANGED <<currentTimeRange, timeRangeHistory, calls, badge>>

StoreStep ==
    \/ SaveTimeRange
    \/ SaveSet
    \/ SaveDone
    \/ RestoreFromHistory
    \/ RestoreSet
    \/ RestoreDone
    \/ ClearAll
    \/ ClearDone
    \/ GetCurrent
    \/ GetHistory
    \/ UnknownMessage
    \/ Startup
    \/ StartupDone

NextStore ==
    /\ StoreStep
    /\ UNCHANGED <<codecVars, historyVars, hostname, pathname, search, hash, now,
                   response, script, zone>>

\* No page is open: the service worker and its store on their own.
InitWorker ==
    /\ InitPageIdle
    /\ cin = Undef
    /\ ctext = << >>
    /\ cout = Out("none", "none", NotCalled, Undef)

SpecStore == InitWorker /\ [][NextStore]_vars

\* ---------------------------------------------------------------------------
\* Properties of the codec

\* C1: for every Value v of the grammar, JSURL.parse(JSURL.stringify(v))
\* returns v.  (The entries of a map of the model are held in insertion order,
\* which encoding and decoding both follow, so equality of the records is
\* equality of the Values.)
C1_RoundTrip ==
    (cout.op = "parse" /\ cout.pre = "stringify")
        => (cout.kind = "returned" /\ cout.val = cin)

\* The encoding of an element of an array: item => _stringify(item) || "~null"
ItemText(v) == IF Stringify(v) = << >> THEN tNull ELSE Stringify(v)

RECURSIVE ItemsEnd(_, _)
\* Where the encoding of element n of the array ends in the encoded text.
ItemsEnd(a, n) == IF n = 0 THEN 2 ELSE ItemsEnd(a, n - 1) + Len(ItemText(a[n]))

RECURSIVE PairsEnd(_, _)
\* Where the encoding of entry n of the map ends in the encoded text.
PairsEnd(m, n) ==
    IF n = 0 THEN 2
    ELSE PairsEnd(m, n - 1) + (IF n > 1 THEN 1 ELSE 0)
             + Len(EncodeKey(m[n].k)) + Len(Stringify(m[n].v))

\* The container decoded from a cut text holds every element or entry of v
\* whose encoding lies wholly before the cut.
HoldsComplete(v, cut, got) ==
    IF v.t = "array"
    THEN /\ got.t = "array"
         /\ \A n \in 1..Len(v.a) :
                ItemsEnd(v.a, n) <= cut => (n <= Len(got.a) /\ got.a[n] = v.a[n])
    ELSE /\ got.t = "object"
         /\ \A n \in 1..Len(v.m) :
                PairsEnd(v.m, n) <= cut
                    => (HasKey(got.m, v.m[n].k) /\ Get(got, v.m[n].k) = v.m[n].v)

\* C2: JSURL.parse of a proper prefix of the encoding of an array or a map does
\* not raise and returns the container with the elements or entries that were
\* complete before the cut.  (Stated for cuts that keep at least one complete
\* element or entry, where the kind of the container is visible in the text.)
C2_TruncationTolerance ==
    (/\ cout.op = "parse" /\ cout.pre = "truncate"
     /\ cin.t \in {"array", "object"}
     /\ (IF cin.t = "array" THEN cin.a ELSE cin.m) # << >>
     /\ Len(ctext) >= (IF cin.t = "array" THEN ItemsEnd(cin.a, 1)
                                           ELSE PairsEnd(cin.m, 1)))
        => (cout.kind = "returned" /\ HoldsComplete(cin, Len(ctext), cout.val))

\* C3: JSURL.tryParse(text, default) never propagates an exception, and returns
\* the default whenever the text is malformed.
C3_TryParseDefault ==
    /\ cout.op \in {"tryParse", "tryParseValue"} => cout.kind # "threw"
    /\ (cout.op = "tryParse" /\ Malformed(ctext))
           => (cout.kind = "returned" /\ cout.val = cout.def)

\* ---------------------------------------------------------------------------
\* Properties of the classifier

\* The rules of the classifier as the specification lists them, in its
\* order, each as a test of the address of the page.
OnCloudWatch == Includes(pathname, tCloudwatch)

StartMarker == Includes(hash, T(<<"$", "3", "F", "s", "t", "a", "r", "t", "$", "3",
        "D">>)) \/ Includes(hash, T(<<"?", "s", "t", "a", "r", "t", "=">>))

MetricsRule == OnCloudWatch /\ Includes(hash, T(<<"m", "e", "t", "r", "i", "c", "s", "V",
        "2">>))

InsightsRule ==
    /\ OnCloudWatch
    /\ \/ Includes(hash, T(<<"l", "o", "g", "s", "-", "i", "n", "s", "i", "g", "h", "t", "s">>))
       \/ /\ Includes(hash, T(<<"l", "o", "g", "s", "V", "2">>))
          /\ (Includes(hash, T(<<"q", "u", "e", "r", "y", "D", "e", "t", "a", "i", "l",
                  "=">>)) \/ Includes(hash, T(<<"q", "u", "e", "r", "y", "D", "e", "t", "a",
                  "i", "l", "$", "3", "D">>)))

LogEventsRule == OnCloudWatch /\ Includes(hash, T(<<"l", "o", "g", "s", "V", "2", ":", "l",
        "o", "g", "-", "g", "r", "o", "u", "p", "s">>)) /\ StartMarker

XRayRule == Includes(pathname, T(<<"/", "x", "r", "a", "y">>)) \/ Includes(pathname, T(<<"/",
        "x", "-", "r", "a", "y">>))

GenericRule == OnCloudWatch /\ Includes(hash, T(<<"?", "~", "(">>))

ConsoleRule == Includes(Href, T(<<".", "c", "o", "n", "s", "o", "l", "e", ".", "a", "w", "s",
        ".", "a", "m", "a", "z", "o", "n", ".", "c", "o", "m">>))

FirstMatchingTag ==
    IF MetricsRule THEN "cloudwatch-metrics"
    ELSE IF InsightsRule THEN "cloudwatch-logs-insights"
    ELSE IF LogEventsRule THEN "cloudwatch-logs"
    ELSE IF XRayRule THEN "xray"
    ELSE IF GenericRule THEN "cloudwatch-generic"
    ELSE IF OnCloudWatch THEN "cloudwatch-other"
    ELSE IF ConsoleRule THEN "unknown"
    ELSE "not-aws"

\* C4: detectService answers every address with the tag of the first rule
\* that matches, in the order metrics graph, Logs Insights, Log Events, X-Ray
\* path, generic hash state ("?~(" in the fragment), cloudwatch-other,
\* unknown (console host), not-aws.
C4_FirstMatchWins ==
    response.action = "detect-service" =>
        (response.sent /\ response.service = FirstMatchingTag)

\* C5: the Log Events tag is returned only when the fragment carries a start
\* marker and no Logs Insights marker; the generic hash-state tag is returned
\* only when none of the metrics, Logs Insights, Log Events and X-Ray rules
\* matches the address.
C5_Exclusive ==
    response.action = "detect-service" =>
        /\ response.service = "cloudwatch-logs" =>
               (StartMarker /\ ~Includes(hash, T(<<"l", "o", "g", "s", "-", "i", "n", "s",
                       "i", "g", "h", "t", "s">>)))
        /\ response.service = "cloudwatch-generic" =>
               ~(MetricsRule \/ InsightsRule \/ LogEventsRule \/ XRayRule)

C5_LogEventsClassified ==
    /\ response.action = "detect-service"
    /\ response.service = "cloudwatch-logs"
    /\ StartMarker

\* ---------------------------------------------------------------------------
\* Properties of the parsers

\* C6: on a CloudWatch address that no more specific rule claims and whose
\* fragment holds "?~(" anywhere, capture-time classifies the page as generic
\* hash state and decodes the text from the first "?~(" on: a numeric
\* timeRange found there, of n milliseconds, is captured as the range from
\* now - n to now.
StateText == SubstringFrom(hash, IndexOf(hash, T(<<"?", "~", "(">>)) + 1)

StateTimeRange == Get(TryParseText(StateText).val, kTimeRange)

C6_GenericMarker ==
    (/\ response.action = "capture-time"
     /\ GenericRule
     /\ ~(MetricsRule \/ InsightsRule \/ LogEventsRule \/ XRayRule))
    => /\ response.classified = "cloudwatch-generic"
       /\ IsNumber(StateTimeRange) =>
              /\ response.success
              /\ response.range.kind = "range"
              /\ response.range.end = response.capturedAt
              /\ response.range.start = VSub(response.capturedAt, StateTimeRange)

\* The queryDetail values of the pages, each with the fragment that carries
\* it in Format A and in Format B.
InsightsCases ==
    { [start |-> s.n, end |-> e.n, timeType |-> tt,
       hashes |-> { T(<<"#", "l", "o", "g", "s", "V", "2", ":", "l", "o", "g", "s", "-", "i",
               "n", "s", "i", "g", "h", "t", "s", "?", "q", "u", "e", "r", "y", "D", "e",
               "t", "a", "i", "l", "=">>)
                        \o ConsoleEncode(QueryDetail(s, e, tt)),
                    T(<<"#", "l", "o", "g", "s", "V", "2", ":", "l", "o", "g", "s", "-", "i",
                            "n", "s", "i", "g", "h", "t", "s", "$", "3", "F", "q", "u", "e",
                            "r", "y", "D", "e", "t", "a", "i", "l", "$", "3",
                            "D">>) \o QueryDetail(s, e, tt) }] :
          s \in InsightsStarts, e \in InsightsEnds, tt \in TimeTypes }

\* Relative mode: timeType says so, or start is negative.
RelativeMode(c) == c.timeType = Str(T(<<"R", "E", "L", "A", "T", "I", "V",
        "E">>)) \/ NIsNeg(c.start)

Captured(c) ==
    /\ response.action = "capture-time"
    /\ OnCloudWatch
    /\ hash \in c.hashes

\* C7: a Relative Logs Insights value with end = 0, in Format A or Format B,
\* is captured with success, and the end of the range is now at the time of
\* the call.
C7_EndZero ==
    \A c \in InsightsCases :
        (Captured(c) /\ RelativeMode(c) /\ c.end = N(0)) =>
            /\ response.sent
            /\ response.success
            /\ response.range.kind = "range"
            /\ response.range.end = response.capturedAt

\* C8: in Relative mode, for start <= end <= 0, the range is
\* start = now + start * 1000 and end = now + end * 1000.
C8_RelativeOffsets ==
    \A c \in InsightsCases :
        (/\ Captured(c)
         /\ RelativeMode(c)
         /\ ~NLess(c.end, c.start)
         /\ ~NLess(N(0), c.end))
        => /\ response.success
           /\ response.range.start = Num(NAdd(response.capturedAt.n, NMul1000(c.start)))
           /\ response.range.end = Num(NAdd(response.capturedAt.n, NMul1000(c.end)))

\* C9: in Absolute mode each of start and end is scaled by itself: below
\* 10^12 it is multiplied by 1000, at or above 10^12 it is returned as it is.
Milliseconds(n) == IF NLess(n, N1e12) THEN NMul1000(n) ELSE n

LogsCases ==
    { [start |-> s.n, present |-> e # Undef, end |-> IF e = Undef THEN N(0) ELSE e.n,
       hashes |-> { T(<<"#", "l", "o", "g", "s", "V", "2", ":", "l", "o", "g", "-", "g", "r",
               "o", "u", "p", "s", "/", "l", "o", "g", "-", "g", "r", "o", "u", "p", "/",
               "G", "/", "l", "o", "g", "-", "e", "v", "e", "n", "t", "s", "/",
               "S">>) \o LogsParams(d, s, e) :
                        d \in Delimiters }] :
          s \in LogsStarts, e \in LogsEnds }

FromNow(n) == IF NIsNeg(n) THEN NAdd(response.capturedAt.n, n) ELSE n

\* C10: a negative start is start = now + start, another start is the epoch
\* value itself; end is now when absent, and when present follows the same
\* rule by its own sign, whatever the sign of start.
C10_SignConvention ==
    \A c \in LogsCases :
        Captured(c) =>
            /\ response.success
            /\ response.range.start = Num(FromNow(c.start))
            /\ response.range.end =
                   (IF c.present THEN Num(FromNow(c.end)) ELSE response.capturedAt)

\* The instant a start or end field of the pages names: the epoch
\* milliseconds of the two timestamps, a number as it is.
Instant(v) ==
    IF v = Str(T(<<"2", "0", "2", "4", "-", "0", "1", "-", "0", "1", "T", "0", "0", ":", "0",
            "0", ":", "0", "0", "Z">>)) THEN Num([hi |-> 1704067, lo |-> 200000])
    ELSE IF v = Str(T(<<"2", "0", "2", "4", "-", "0", "1", "-", "0", "2", "T", "0", "0", ":",
            "0", "0", ":", "0", "0", "Z">>)) THEN Num([hi |-> 1704153, lo |-> 600000])
    ELSE v

Before(ms) == Num(NSub(response.capturedAt.n, N(ms)))

RelativeCapture(ms) ==
    /\ response.success
    /\ response.range.raw = "relative"
    /\ response.range.end = response.capturedAt
    /\ response.range.start = Before(ms)

\* C11: with start and end present, a start text that begins with "-P" gives
\* the Relative range that ends now and starts the duration before now;
\* every other start and end are taken as Absolute, a timestamp text or a
\* number of epoch milliseconds each; period is used only when start or end
\* is absent, and with none of them there is no range.
C11_MetricsModes ==
    \A c \in MetricsCases :
        Captured(c) =>
            IF c.start # Undef /\ c.end # Undef
            THEN IF c.start = Str(T(<<"-", "P", "T", "3", "H">>))
                 THEN RelativeCapture(3 * 3600 * 1000)
                 ELSE /\ response.success
                      /\ response.range.raw = "absolute"
                      /\ response.range.start = Instant(c.start)
                      /\ response.range.end = Instant(c.end)
            ELSE IF c.period # Undef
            THEN RelativeCapture(5 * 60 * 1000)
            ELSE ~response.success /\ response.range = NoRange

\* C12: the generic parser maps timeRange by its shape: a number n gives the
\* Relative range from now - n to now, an array of two the Absolute range of
\* its elements, a map with start and end the Absolute range of the two
\* instants; every other shape, and no timeRange at all, gives a failure and
\* no range.
C12_GenericShapes ==
    \A c \in GenericCases :
        Captured(c) =>
            IF c.timeRange.t = "number"
            THEN /\ response.success
                 /\ response.range.end = response.capturedAt
                 /\ response.range.start = VSub(response.capturedAt, c.timeRange)
            ELSE IF c.timeRange.t = "array" /\ Len(c.timeRange.a) = 2
            THEN /\ response.success
                 /\ response.range.start = c.timeRange.a[1]
                 /\ response.range.end = c.timeRange.a[2]
            ELSE IF /\ c.timeRange.t = "object"
                    /\ HasKey(c.timeRange.m, kStart)
                    /\ HasKey(c.timeRange.m, kEnd)
            THEN /\ response.success
                 /\ response.range.start = Instant(Get(c.timeRange, kStart))
                 /\ response.range.end = Instant(Get(c.timeRange, kEnd))
            ELSE ~response.success /\ response.range = NoRange

\* ---------------------------------------------------------------------------
\* Properties of the injectors

\* Does the address, query q and hash h, hold the substring the scheme keeps
\* its time range in?  Metrics: the value of graph=; Logs Insights: the value
\* of queryDetail= or queryDetail$3D; Log Events: a numbered start parameter;
\* X-Ray: a timeRange parameter of the query or of the hash; generic hash
\* state: the state text after "?".
Located(service, q, h) ==
    IF service = "cloudwatch-metrics"
    THEN MatchParam(h, tGraphEq, {cAmp, cSemi}, FALSE).found
    ELSE IF service = "cloudwatch-logs-insights"
    THEN \/ MatchParam(h, tQueryDetailEq, {cAmp, cSemi}, FALSE).found
         \/ MatchParam(h, tQueryDetailCoded, {cAmp, cSemi}, TRUE).found
    ELSE IF service = "cloudwatch-logs"
    THEN \/ Numbered(h, {tStartCoded}, Len(tStartCoded), TRUE).found
         \/ Numbered(h, {tStartPlain, tAmpStartEq}, Len(tStartPlain), FALSE).found
    ELSE IF service = "xray"
    THEN \/ SearchParamsHas(SearchParams(q), kTimeRange)
         \/ Includes(h, tTimeRangeEq)
    ELSE IF service = "cloudwatch-generic"
    THEN IndexOf(h, tStateMarker) >= 0
    ELSE FALSE

\* The listener has answered an apply-time message.
ApplyAnswered == response.action = "apply-time" /\ response.sent

AddressKept == search = previousSearch /\ hash = previousHash

\* C13: when the substring that holds the scheme's time range cannot be
\* located in the address, the injector reports failure and leaves the
\* address as it is: it appends no time parameter, and reports no success
\* without a located substring to rewrite.
C13_NoMatchFails ==
    (ApplyAnswered /\ ~Located(response.classified, previousSearch, previousHash))
        => (~response.success /\ AddressKept)

\* str without str[at..e)
Cut(str, at, e) == Substring(str, 0, at) \o SubstringFrom(str, e)

\* str without the value of the parameter match m, without the span m
CutParam(str, m) == IF m.found THEN Cut(str, m.at, m.at + Len(m.val)) ELSE str
CutSpan(str, m) == IF m.found THEN Cut(str, m.at, m.e) ELSE str

CutValue(str, name, stops, ci) == CutParam(str, MatchParam(str, name, stops, ci))
CutNumbered(str, names, n, ci) == CutSpan(str, Numbered(str, names, n, ci))

tQuestionTimeRangeEq == T(<<"?", "t", "i", "m", "e", "R", "a", "n", "g", "e", "=">>)

\* The first timeRange parameter of the query text
QueryTimeRange(q) ==
    IF MatchesAt(q, tQuestionTimeRangeEq, 0)
    THEN MatchParam(q, tQuestionTimeRangeEq, {cAmp}, FALSE)
    ELSE MatchParam(q, tAmpTimeRangeEq, {cAmp}, FALSE)

\* The hash h without the substring the scheme keeps its time range in.
HashOutside(service, h) ==
    IF service = "cloudwatch-metrics" THEN CutValue(h, tGraphEq, {cAmp, cSemi}, FALSE)
    ELSE IF service = "cloudwatch-logs-insights"
    THEN CutValue(CutValue(h, tQueryDetailEq, {cAmp, cSemi}, FALSE),
                  tQueryDetailCoded, {cAmp, cSemi}, TRUE)
    ELSE IF service = "cloudwatch-logs"
    THEN CutNumbered(
             CutNumbered(
                 CutNumbered(
                     CutNumbered(h, {tStartCoded}, Len(tStartCoded), TRUE),
                     {tEndCodedEq}, Len(tEndCodedEq), TRUE),
                 {tStartPlain, tAmpStartEq}, Len(tStartPlain), FALSE),
             {tQuestionEndEq, tAmpEndEq}, Len(tAmpEndEq), FALSE)
    ELSE IF service = "xray" THEN CutValue(h, tTimeRangeEq, {cAmp}, FALSE)
    ELSE IF service = "cloudwatch-generic" /\ IndexOf(h, tStateMarker) >= 0
    THEN Substring(h, 0, IndexOf(h, tStateMarker) + 1)
    ELSE h

\* The query q without the value of its timeRange parameter (X-Ray).
QueryOutside(service, q) ==
    IF service = "xray" THEN CutParam(q, QueryTimeRange(q)) ELSE q

\* The structured value the scheme keeps in the hash h, decoded.
Structured(service, h) ==
    IF service = "cloudwatch-metrics"
    THEN TryParseText(MatchParam(h, tGraphEq, {cAmp, cSemi}, FALSE).val)
    ELSE IF service = "cloudwatch-logs-insights"
    THEN (IF MatchParam(h, tQueryDetailEq, {cAmp, cSemi}, FALSE).found
          THEN InsightsObjectA(MatchParam(h, tQueryDetailEq, {cAmp, cSemi}, FALSE))
          ELSE InsightsObjectB(MatchParam(h, tQueryDetailCoded, {cAmp, cSemi}, TRUE)))
    ELSE IF service = "cloudwatch-generic"
    THEN TryParseText(SubstringFrom(h, IndexOf(h, tStateMarker) + 1))
    ELSE Returned(Null)

\* The names of the entries that hold the time range.
TimeKeys(service) ==
    IF service = "cloudwatch-metrics" THEN {kStart, kEnd}
    ELSE IF service = "cloudwatch-logs-insights" THEN {kStart, kEnd, kTimeType}
    ELSE {kTimeRange}

\* The entries of the decoded value o other than those of the time range.
OtherEntries(service, o) ==
    IF o.kind = "returned" /\ o.val.t = "object"
    THEN SelectSeq(o.val.m, LAMBDA entry : entry.k \notin TimeKeys(service))
    ELSE << >>

NonTime(service, h) == OtherEntries(service, Structured(service, h))

\* The last apply-time found the time-bearing substring and reported success.
InjectedLocated ==
    /\ ApplyAnswered
    /\ response.success
    /\ Located(response.classified, previousSearch, previousHash)

\* C14: a successful inject changes only the time-bearing fields: the
\* characters of the address outside the located substring are the same
\* before and after, and so are the entries (key and value) of the structured
\* value other than those of the time range.
C14_Frame ==
    InjectedLocated =>
        /\ QueryOutside(response.classified, search)
               = QueryOutside(response.classified, previousSearch)
        /\ HashOutside(response.classified, hash)
               = HashOutside(response.classified, previousHash)
        /\ NonTime(response.classified, hash)
               = NonTime(response.classified, previousHash)

\* ms, cut to whole seconds
WholeSeconds(ms) == Num(NMul1000(NFloorDiv1000(ms.n)))

\* Does the instant got agree with ms within what the scheme can hold:
\* milliseconds in Log Events and in the generic hash state, whole seconds
\* in the others?
Kept(service, ms, got) ==
    IF service \in {"cloudwatch-logs", "cloudwatch-generic"} THEN got = ms
    ELSE got = ms \/ got = WholeSeconds(ms)

\* The last apply-time reported success for an Absolute range r with
\* 0 <= r.start <= r.end.
InjectedAbsolute ==
    /\ ApplyAnswered
    /\ response.success
    /\ ~NIsNeg(applied.start.n)
    /\ ~NLess(applied.end.n, applied.start.n)

Agrees(service, r, p) ==
    /\ p.kind = "range"
    /\ Kept(service, r.start, p.start)
    /\ Kept(service, r.end, p.end)

\* C15: after a successful inject of an Absolute range r, 0 <= r.start <=
\* r.end, the parser of the scheme reads from the new address a range whose
\* start and end are those of r, to the millisecond in Log Events and in the
\* generic hash state, cut to whole seconds in Logs Insights, Metrics and
\* X-Ray.
C15_InjectThenParse ==
    InjectedAbsolute => Agrees(Service, applied, ParserResult(Service))

\* The last apply-time reported success.
InjectedOk == ApplyAnswered /\ response.success

\* raw.type of an Absolute result; the generic parser has one for each shape
AbsoluteMarks == {"absolute", "absolute-array"}

SameAbsolute(p, q) ==
    /\ p.kind = "range"
    /\ q.kind = "range"
    /\ p.raw \in AbsoluteMarks
    /\ q.raw \in AbsoluteMarks
    /\ p.start = q.start
    /\ p.end = q.end

\* C16: the injectors write the Absolute form: after a successful inject,
\* whatever the address held before, the parser reads the same start and end
\* from the new address now and one clock step later, and marks the range as
\* absolute.
C16_WritesAbsolute ==
    InjectedOk =>
        SameAbsolute(ParserAt(Service, search, hash, now, zone),
                     ParserAt(Service, search, hash, NAdd(now, TickMs), zone))

\* The injector reports success and the address is what it was.
Settled(r) == r.kind = "true" /\ r.search = search /\ r.hash = hash

\* One more cycle on the present address: inject the range p that the parser
\* reads from it.
CycleSettled(p) ==
    (p.kind = "range" /\ p.start.t = "number" /\ p.end.t = "number")
        => Settled(InjectorAt(Service, search, hash,
                              [start |-> p.start, end |-> p.end, captured |-> TRUE]))

\* C17: round trips do not drift: injecting the same range once more leaves
\* the address as the first inject made it, and after a cycle of parse and
\* inject of the parsed range a further cycle leaves the address as it is.
C17_NoDrift ==
    InjectedOk =>
        /\ Settled(InjectorAt(Service, search, hash, applied))
        /\ applied.captured => CycleSettled(ParserResult(Service))

\* ---------------------------------------------------------------------------
\* Properties of the message handler

\* The classifications without a time range in the address.
UnsupportedTags == {"cloudwatch-other", "unknown", "not-aws"}

\* C18: on an address classified cloudwatch-other, unknown or not-aws, both
\* capture-time and apply-time answer with a failure that carries an error,
\* give no time range, and leave the address as it is.
C18_Unsupported ==
    [][(/\ response'.action \in {"capture-time", "apply-time"}
        /\ response'.classified \in UnsupportedTags)
           => /\ response'.sent
              /\ ~response'.success
              /\ response'.range = NoRange
              /\ response'.error # "none"
              /\ search' = search
              /\ hash' = hash]_vars

\* apply-time has been answered on such an address, after a capture-time.
C18_UnsupportedApplied ==
    /\ ApplyAnswered
    /\ response.classified \in UnsupportedTags
    /\ search = previousSearch
    /\ hash = previousHash
    /\ applies = MaxApplies

\* C19: every capture-time and every apply-time message is answered, with
\* exactly one response, which is a success or a failure that carries an
\* error.
C19_TaggedResult ==
    response.action \in {"capture-time", "apply-time"}
        => /\ response.sent
           /\ ~response.hung
           /\ response.success <=> response.error = "none"

\* ---------------------------------------------------------------------------
\* Properties of the service worker
\* ---------------------------------------------------------------------------

\* C20: starting from an empty store, after any sequence of save-time-range,
\* restore-from-history and clear-all messages, whatever way the steps of the
\* calls interleave, the history holds at most MAX_HISTORY = 5 entries.
C20_HistoryBounded == Len(timeRangeHistory) <= MAX_HISTORY

\* Seven saves in a row have come to their end: the history holds the five
\* time ranges before the current one and has dropped the oldest.
C20_FullHistoryPushed ==
    /\ calls = { }
    /\ currentTimeRange = MaxStarted
    /\ timeRangeHistory = << 6, 5, 4, 3, 2 >>
    /\ Len(timeRangeHistory) = MAX_HISTORY

\* ---------------------------------------------------------------------------
\* Properties of the string encoding
\* ---------------------------------------------------------------------------

\* The escape of one character as the encoding rules give it: "'" as "!",
\* "!" as "!!", "%" as "*25", a character outside the printable ASCII range
\* as *HH below 0x80 and as **HHHH from 0x80 on.  The escape character "*"
\* itself is taken as the library writes it.
RuleEscape(ch) ==
    IF ch = cQuote THEN << cBang >>
    ELSE IF ch = cBang THEN << cBang, cBang >>
    ELSE IF ch = cPct THEN T(<<"*", "2", "5">>)
    ELSE IF ch = cStar THEN Encode(ch)
    ELSE IF ch < 32 \/ ch = 127
    THEN << cStar >> \o (IF ch < 16 THEN << HexChars[1] >> ELSE << >>) \o ToHexUpper(ch)
    ELSE IF ch > 127
    THEN << cStar, cStar >>
             \o [i \in 1..(4 - Len(ToHexUpper(ch))) |-> HexChars[1]] \o ToHexUpper(ch)
    ELSE << ch >>

RuleBody(s) == Concat([i \in 1..Len(s) |-> RuleEscape(s[i])])

\* C22: JSURL.stringify of a string is "~'" and then the body with every
\* character escaped as the encoding rules say.
C22_StringEncoding ==
    (cout.op = "stringify" /\ cin.t = "string")
        => ctext = << cTilde, cQuote >> \o RuleBody(cin.s)

\* C23: JSURL.parse and JSURL.tryParse come back on every text: no loop of
\* _parse goes on for ever.
C23_ParseTerminates ==
    cout.op \in {"parse", "tryParse", "parseValue", "tryParseValue"}
        => cout.kind # "hangs"

\* The keys of a map, in the order it holds them.
KeysOf(m) == [i \in 1..Len(m) |-> m[i].k]

\* C24: JSURL.parse of the encoding of a map with two or more entries returns
\* a map with exactly the encoded keys, in insertion order, each bound to its
\* own value, whatever character a key begins with.
C24_MapKeys ==
    (/\ cout.op = "parse" /\ cout.pre = "stringify"
     /\ cin.t = "object"
     /\ Len(cin.m) >= 2)
        => /\ cout.kind = "returned"
           /\ cout.val.t = "object"
           /\ KeysOf(cout.val.m) = KeysOf(cin.m)
           /\ \A i \in 1..Len(cin.m) : cout.val.m[i].v = cin.m[i].v

\* ---------------------------------------------------------------------------
\* Properties of the store
\* ---------------------------------------------------------------------------

\* What a save makes of the history, by the rule: the current time range, if
\* there is one, goes to the front, the others follow in their order, and
\* of more than five the last is dropped.
SavedHistory(current, history) ==
    IF current = Absent THEN history
    ELSE IF Len(history) + 1 > 5
    THEN << current >> \o SubSeq(history, 1, Len(history) - 1)
    ELSE << current >> \o history

\* C25: a save-time-range of the range r makes r the current range; a
\* current range c it found goes to the front of the history it found, the
\* earlier entries follow in their order, and of more than 5 entries exactly
\* the last is dropped; when it found no current range the history stays as
\* it found it.
C25_Save ==
    [][\A c \in calls :
           SaveWrites(c)
               => /\ currentTimeRange' = c.timeRange
                  /\ timeRangeHistory'
                         = SavedHistory(c.currentTimeRange, c.timeRangeHistory)]_vars

\* A save onto a full history has written: the oldest entry is gone.
C25_SavedOntoFull ==
    /\ \E c \in calls : c.op = "save" /\ c.pc = "badge" /\ c.timeRange = currentTimeRange
    /\ currentTimeRange = MaxStarted
    /\ timeRangeHistory = << 6, 5, 4, 3, 2 >>

\* The current time range, if there is one, and then the history.
Held(current, history) ==
    (IF current = Absent THEN << >> ELSE << current >>) \o history

\* a and b hold the same entries, each as often.
SameEntries(a, b) ==
    /\ Len(a) = Len(b)
    /\ \A x \in {a[j] : j \in 1..Len(a)} \cup {b[j] : j \in 1..Len(b)} :
           Cardinality({j \in 1..Len(a) : a[j] = x})
               = Cardinality({j \in 1..Len(b) : b[j] = x})

\* history without its entry i, counted from 0
Without(history, i) ==
    [j \in 1..(Len(history) - 1) |-> IF j <= i THEN history[j] ELSE history[j + 1]]

\* C26: a restore-from-history with a valid index i makes history[i] the
\* current range, takes it out of the history and puts the range that was
\* current, if any, at the front; the current range and the history together
\* hold the same entries before and after, and nothing is evicted.
C26_Restore ==
    [][\A c \in calls :
           RestoreWrites(c)
               => /\ currentTimeRange' = c.timeRangeHistory[c.index + 1]
                  /\ timeRangeHistory'
                         = Held(c.currentTimeRange, Without(c.timeRangeHistory, c.index))
                  /\ SameEntries(Held(currentTimeRange', timeRangeHistory'),
                                 Held(c.currentTimeRange, c.timeRangeHistory))]_vars

\* A restore from a full history has written: the third entry is current,
\* the range that was current is at the front.
C26_RestoredFromFull ==
    /\ \E c \in calls : c.op = "restore" /\ c.pc = "badge" /\ c.timeRange = 3
    /\ currentTimeRange = 3
    /\ timeRangeHistory = << 6, 5, 4, 2, 1 >>

\* C27: a restore-from-history with an index below 0, or at or beyond the
\* length of the history, is answered with a failure and leaves the current
\* range, the history and the badge as they are.
C27_InvalidIndex ==
    [][\A index \in -1..MAX_HISTORY :
           (Restore(index) /\ (index < 0 \/ index >= Len(timeRangeHistory)))
               => /\ reply'.action = "restore-from-history"
                  /\ ~reply'.success
                  /\ calls' = calls
                  /\ currentTimeRange' = currentTimeRange
                  /\ timeRangeHistory' = timeRangeHistory
                  /\ badge' = badge]_vars

\* A restore was refused while a current range and a history were stored.
C27_Refused ==
    /\ reply.action = "restore-from-history"
    /\ ~reply.success
    /\ calls = { }
    /\ currentTimeRange # Absent
    /\ timeRangeHistory # << >>
    /\ badge

\* The entries of a list.
Entries(a) == {a[j] : j \in 1..Len(a)}

\* C28: no stored range is lost when calls interleave: a write of a save or
\* of a restore keeps every range the store holds at that moment, the
\* current one and the history, as far as the capacity of five allows.
C28_NothingLost ==
    [][\A c \in calls :
           (SaveWrites(c) \/ RestoreWrites(c))
               => \A j \in 1..Len(Held(currentTimeRange, timeRangeHistory)) :
                      j <= MAX_HISTORY
                          => Held(currentTimeRange, timeRangeHistory)[j]
                                 \in Entries(Held(currentTimeRange', timeRangeHistory'))]_vars

\* C29: when no call is in progress the badge is shown if and only if a
\* current time range is stored, and when the last answer was the one of
\* clear-all neither a current range nor a history is stored.
C29_Badge ==
    calls = { }
        => /\ badge <=> currentTimeRange # Absent
           /\ reply.action = "clear-all"
                  => (currentTimeRange = Absent /\ timeRangeHistory = << >>)

\* clear-all was answered last, after saves, and nothing is in progress.
C29_Cleared ==
    /\ calls = { }
    /\ reply.action = "clear-all"
    /\ started = MaxStarted
    /\ ~badge

(***************************************************************************)
(* The popup and the keyboard shortcuts: capture, apply and navigation      *)
(***************************************************************************)

MaxCaptures == 1
MaxFlowApplies == 1

CaptureKinds == {"popup-capture", "command-capture"}
ApplyKinds == {"popup-apply", "command-apply"}

\* The test that every answered capture passes.
CaptureAnswered(r) == r.sent

\* if (response.success) after if (!response) of captureTime(), and
\* if (response && response.success) of the capture-time command
CaptureSucceeded(r) == r.sent /\ r.success

\* timeRange: response.timeRange of the save-time-range message, and the
\* argument of saveTimeRange in the command: id names it in the store.
Carried(id, r) ==
    [i \in DOMAIN ranges \cup {id} |->
        IF i = id THEN [start |-> r.range.start, end |-> r.range.end, captured |-> TRUE]
        ELSE ranges[i]]

\* captureTime() of the popup and the capture-time command of the service
\* worker: the capture-time message to the page and, when the page answered
\* success, saveTimeRange up to the answer of chrome.storage.local.get.
Capture(kind) ==
    /\ script # "none"
    /\ flow.pc = "done"
    /\ MayStart
    /\ response' = CaptureAnswer(Service, ParserResult(Service))
    /\ CaptureSucceeded(response') => Cardinality(DOMAIN ranges) < MaxCaptures
    /\ flow' = [kind |-> kind, pc |-> "done", tr |-> Absent]
    /\ IF CaptureSucceeded(response')
       THEN /\ calls' = calls \cup {Call("save", started + 1, 0)}
            /\ started' = started + 1
            /\ ranges' = Carried(started + 1, response')
            /\ navigated' = FALSE
       ELSE UNCHANGED <<calls, started, ranges, navigated>>
    /\ UNCHANGED <<codecVars, currentTimeRange, timeRangeHistory, badge, reply, hostname,
                   pathname, search, hash, now, script, zone, applied, previousSearch,
                   previousHash, applies>>

PopupCapture == Capture("popup-capture")

CommandCapture == Capture("command-capture")

\* applyTime() of the popup up to const tr = currentResp ? ... : null, and
\* the apply-time command up to const current = await getCurrentTimeRange():
\* without a stored time range neither sends a message to the page.
ApplyRead(kind) ==
    /\ script # "none"
    /\ flow.pc = "done"
    /\ applies < MaxFlowApplies
    /\ flow' = [kind |-> kind,
                pc |-> IF currentTimeRange = Absent THEN "done" ELSE "read",
                tr |-> currentTimeRange]
    /\ UNCHANGED <<codecVars, storeVars, ranges, navigated, hostname, pathname, search,
                   hash, now, response, script, zone, applied, previousSearch,
                   previousHash, applies>>

PopupApply == ApplyRead("popup-apply")

CommandApply == ApplyRead("command-apply")

\* chrome.tabs.sendMessage(tab.id, { action: "apply-time", timeRange }) of
\* both, and the apply-time case of the listener of the page
ApplySend ==
    /\ flow.pc = "read"
    /\ \E tr \in {ranges[flow.tr]} : Applied(tr, InjectorAt(Service, search, hash, tr))
    /\ flow' = [flow EXCEPT !.pc = "done"]
    /\ UNCHANGED <<codecVars, storeVars, ranges, navigated, hostname, pathname, now,
                   script, zone>>

\* The addresses the tab moves between.
FlowAddresses ==
    { Address(hostConsole, pathCloudWatch, searchRegion, T(<<"#", "m", "e", "t", "r", "i",
            "c", "s", "V", "2", ":", "g", "r", "a", "p", "h", "=", "~", "(", "s", "t", "a",
            "r", "t", "~", "'", "-", "P", "T", "3", "H", "~", "e", "n", "d", "~", "'", "P",
            "0", "D", ")">>)),
      Address(hostConsole, pathCloudWatch, searchRegion, T(<<"#", "h", "o", "m", "e", ":",
              "?", "~", "(", "(">>)),
      Address(hostConsole, pathXRay, searchRegion, << >>),
      Address(hostConsole, pathEc2, searchRegion, T(<<"#", "I", "n", "s", "t", "a", "n", "c",
              "e", "s", ":">>)) }

\* The tab loads another address.
Navigate ==
    /\ \E a \in FlowAddresses :
          /\ <<a.hostname, a.pathname, a.search, a.hash>>
                 # <<hostname, pathname, search, hash>>
          /\ hostname' = a.hostname
          /\ pathname' = a.pathname
          /\ search' = a.search
          /\ hash' = a.hash
    /\ navigated' = TRUE
    /\ UNCHANGED <<codecVars, storeVars, ranges, flow, now, response, script, zone,
                   applied, previousSearch, previousHash, applies>>

\* The steps of the service worker that a capture sets off.
FlowStore ==
    /\ SaveSet \/ SaveDone
    /\ UNCHANGED <<codecVars, historyVars, hostname, pathname, search, hash, now, response,
                   script, zone>>

InitFlowAt ==
    /\ InitAt(FlowAddresses, {"bundle", "content"})
    /\ zone = 0

NextFlow ==
    \/ PopupCapture
    \/ CommandCapture
    \/ PopupApply
    \/ CommandApply
    \/ ApplySend
    \/ Navigate
    \/ FlowStore

SpecFlow == InitFlowAt /\ [][NextFlow]_vars

(***************************************************************************)
(* Properties of the capture and apply flows                                *)
(***************************************************************************)

\* The apply-time case called detectService() on the address it found.
Reclassified == response'.classified = Service

\* The apply-time case rewrote the address it found, or left it alone.
OnNewAddress ==
    /\ hostname' = hostname
    /\ pathname' = pathname
    /\ previousSearch' = search
    /\ previousHash' = hash
    /\ ~response'.success => (search' = search /\ hash' = hash)

\* C21: no classification is cached: each capture-time and each apply-time
\* message classifies the address of that moment, so an apply after the tab
\* moved to another address uses the scheme of the new address and works on
\* the new address; and when the new address holds no substring with a time
\* range, the apply answers failure and leaves the address as it is.
C21_AppliedToNewAddress ==
    [][/\ \A kind \in CaptureKinds :
            (response'.action = "capture-time" /\ Capture(kind)) => Reclassified
       /\ (ApplySend /\ navigated) =>
              /\ Reclassified
              /\ OnNewAddress
              /\ (response'.sent /\ ~Located(Service, search, hash)) =>
                     (~response'.success /\ search' = search /\ hash' = hash)]_vars

====
